---- MODULE Spec2Model ----
(***************************************************************************)
(* A model of propbot's ingestion pipeline (date normalizer, freshness     *)
(* filter, upsert store, ingest-run tracker, orchestrator) and of its      *)
(* embedding index builder.                                                *)
(*                                                                         *)
(* Strings that the code parses are modelled by their content:             *)
(*   [k |-> "none"]                       Python None                      *)
(*   [k |-> "text", s |-> "N/A"]          a string that holds no date      *)
(*   [k |-> "digits", ds |-> <<1,2,..>>]  a string of decimal digits       *)
(*   [k |-> "iso", y, mo, d, h, mi, sec, tz, off]                          *)
(*        an ISO-8601 string YYYY-MM-DDTHH:MM:SS, with a UTC offset of     *)
(*        off hours when tz is TRUE.  Its fields are what is written in    *)
(*        the string and need not form a valid date.                       *)
(* A datetime object is a record [y, mo, d, h, mi, sec, tz, off] that      *)
(* holds a valid date; an exception is [k |-> "exc", s |-> its class].     *)
(***************************************************************************)
EXTENDS Integers, Sequences, FiniteSets, TLC

VARIABLES
    fcall,      \* one call of is_expired: its arguments and its result
    ncall,      \* one call of normalize_deadline: its arguments and its result
    conn,       \* the database as the pipeline's connection sees it
    disk,       \* the committed database
    calls,      \* the upsert_opportunity calls made directly on the storage
    pc,         \* where _process_source stands
    tracker,    \* the IngestRunTracker of the current run
    today,      \* date.today()
    feed,       \* the source adapter of the current run, and the events left
    err,        \* the message of the exception in flight
    hist,       \* what the run did last (history, not program state)
    gen,        \* one invocation of EmbeddingGenerator.generate_index
    files,      \* the persisted artifacts faiss_index.bin and faiss_id_map.json
    svc,        \* the backend's SemanticSearch instance and its last request
    plan,       \* one invocation of run_pipeline: its sources_to_run
    peers,      \* two ingest processes, each on a connection of its own
    adapter,    \* one source adapter's fetch(): the raw feed and what it yielded
    builders    \* two overlapping invocations of generate_index

vars == <<fcall, ncall, conn, disk, calls, pc, tracker, today, feed, err, hist, gen, files,
          svc, plan, peers,
          adapter, builders>>

(***************************************************************************)
(* Bounds of the model                                                     *)
(***************************************************************************)
MaxCalls == 3       \* direct calls of upsert_opportunity
MaxEvents == 4      \* runs started, records yielded and sqlite3 errors, in all
MaxBatch == 3       \* largest batch_size of the index builder
MaxBuilds == 2      \* invocations of generate_index
MaxRows == 4        \* rows of the index that search is called on
MaxK == 5           \* largest k of a search
MaxStored == 2      \* records committed beside the backend
MaxLimit == 1       \* largest limit of a request to /api/search
MaxItems == 3       \* items of a raw feed
MaxLiveEvents == 3  \* runs started, records yielded and sqlite3 errors, where
                    \* the ends of runs are followed

\* orchestrator.py: "if (tracker.records_fetched % 100) == 0"
COMMIT_EVERY == 100
\* generator.py: "if len(description) > 2000"
DESCRIPTION_CAP == 2000

(***************************************************************************)
(* Values                                                                  *)
(***************************************************************************)
None == [k |-> "none"]
NULL == "NULL"                  \* None / SQL NULL in a text column

Text(s) == [k |-> "text", s |-> s]
Digits(ds) == [k |-> "digits", ds |-> ds]
Iso(y, mo, d, h, mi, sec) ==
    [k |-> "iso", y |-> y, mo |-> mo, d |-> d, h |-> h, mi |-> mi, sec |-> sec,
     tz |-> FALSE, off |-> 0]
IsoTz(y, mo, d, h, mi, sec, off) ==
    [k |-> "iso", y |-> y, mo |-> mo, d |-> d, h |-> h, mi |-> mi, sec |-> sec,
     tz |-> TRUE, off |-> off]
Exc(cls) == [k |-> "exc", s |-> cls]
List(items) == [k |-> "list", items |-> items]
Date(y, mo, d) == [k |-> "date", y |-> y, mo |-> mo, d |-> d]

IsExc(v) == v.k = "exc"

(***************************************************************************)
(* datetime                                                                *)
(***************************************************************************)
IsLeap(y) == (y % 4 = 0 /\ y % 100 # 0) \/ y % 400 = 0

DaysInMonth(y, mo) ==
    IF mo = 2 THEN (IF IsLeap(y) THEN 29 ELSE 28)
    ELSE IF mo \in {4, 6, 9, 11} THEN 30 ELSE 31

\* datetime(y, mo, d, h, mi, sec): the constructor's range checks
ValidDateTime(y, mo, d, h, mi, sec) ==
    /\ y \in 1..9999
    /\ mo \in 1..12
    /\ d \in 1..DaysInMonth(y, mo)
    /\ h \in 0..23
    /\ mi \in 0..59
    /\ sec \in 0..59

\* datetime.isoformat()
isoformat(dt) ==
    [k |-> "iso", y |-> dt.y, mo |-> dt.mo, d |-> dt.d, h |-> dt.h, mi |-> dt.mi,
     sec |-> dt.sec, tz |-> dt.tz, off |-> dt.off]

\* datetime.date()
DateOf(dt) == Date(dt.y, dt.mo, dt.d)

\* date < date
DateLess(a, b) ==
    \/ a.y < b.y
    \/ a.y = b.y /\ a.mo < b.mo
    \/ a.y = b.y /\ a.mo = b.mo /\ a.d < b.d

PrevDay(dt) ==
    IF dt.d > 1 THEN [dt EXCEPT !.d = dt.d - 1]
    ELSE IF dt.mo > 1
         THEN [dt EXCEPT !.mo = dt.mo - 1, !.d = DaysInMonth(dt.y, dt.mo - 1)]
         ELSE [dt EXCEPT !.y = dt.y - 1, !.mo = 12, !.d = 31]

NextDay(dt) ==
    IF dt.d < DaysInMonth(dt.y, dt.mo) THEN [dt EXCEPT !.d = dt.d + 1]
    ELSE IF dt.mo < 12
         THEN [dt EXCEPT !.mo = dt.mo + 1, !.d = 1]
         ELSE [dt EXCEPT !.y = dt.y + 1, !.mo = 1, !.d = 1]

\* dt.astimezone(UTC).replace(tzinfo=None), for an offset of whole hours.
\* astimezone raises OverflowError ("date value out of range") when the UTC
\* time falls before year 1 or after year 9999.
ToNaiveUtc(dt) ==
    LET hh == dt.h - dt.off
        base == [dt EXCEPT !.tz = FALSE, !.off = 0]
        utc == IF hh < 0 THEN [PrevDay(base) EXCEPT !.h = hh + 24]
               ELSE IF hh > 23 THEN [NextDay(base) EXCEPT !.h = hh - 24]
               ELSE [base EXCEPT !.h = hh]
    IN  IF utc.y \in 1..9999 THEN utc ELSE Exc("OverflowError")

\* What datetime.fromisoformat and dateutil's isoparse read from an ISO
\* string: a datetime, or ValueError when the fields form no date.
ReadIso(str) ==
    IF str.k = "iso" /\ ValidDateTime(str.y, str.mo, str.d, str.h, str.mi, str.sec)
    THEN [y |-> str.y, mo |-> str.mo, d |-> str.d, h |-> str.h, mi |-> str.mi,
          sec |-> str.sec, tz |-> str.tz, off |-> str.off, k |-> "datetime"]
    ELSE Exc("ValueError")

(***************************************************************************)
(* pipeline/normalizer.py                                                  *)
(***************************************************************************)
\* int("".join(digits))
DigitsToInt(ds) ==
    LET RECURSIVE go(_, _)
        go(i, acc) == IF i > Len(ds) THEN acc ELSE go(i + 1, acc * 10 + ds[i])
    IN  go(1, 0)

\* dateutil.parser.parse on the strings of the model, then the end-of-day rule
_parse_generic_date(date_str) ==
    LET dt == CASE date_str.k = "iso" -> ReadIso(date_str)
                [] date_str.k = "digits" /\ Len(date_str.ds) = 8 ->
                     \* a token of 8 digits reads as YYYYMMDD
                     LET y == DigitsToInt(SubSeq(date_str.ds, 1, 4))
                         mo == DigitsToInt(SubSeq(date_str.ds, 5, 6))
                         d == DigitsToInt(SubSeq(date_str.ds, 7, 8))
                     IN  ReadIso(Iso(y, mo, d, 0, 0, 0))
                [] OTHER -> Exc("ValueError")
    IN  IF IsExc(dt) THEN dt
        ELSE IF dt.h = 0 /\ dt.mi = 0 /\ dt.sec = 0
             THEN isoformat([dt EXCEPT !.h = 23, !.mi = 59, !.sec = 59])
             ELSE isoformat(dt)

\* _parse_grants_date without its branch for 8 digits
parse_grants_as_generic(date_str) == _parse_generic_date(date_str)

_parse_grants_date(date_str) ==
    IF date_str.k = "digits" /\ Len(date_str.ds) = 8
    THEN LET month == DigitsToInt(SubSeq(date_str.ds, 1, 2))
             day == DigitsToInt(SubSeq(date_str.ds, 3, 4))
             year == DigitsToInt(SubSeq(date_str.ds, 5, 8))
         IN  IF ValidDateTime(year, month, day, 23, 59, 59)
             THEN Iso(year, month, day, 23, 59, 59)
             ELSE Exc("ValueError")
    ELSE _parse_generic_date(date_str)

_parse_sam_date(date_str) ==
    LET dt == ReadIso(date_str)
    IN  IF IsExc(dt) THEN dt
        ELSE IF dt.tz
             THEN LET utc == ToNaiveUtc(dt)
                  IN  IF IsExc(utc) THEN utc ELSE isoformat(utc)
        ELSE isoformat(dt)

normalize_deadline(deadline_str, source) ==
    IF deadline_str = None
       \/ (deadline_str.k = "text" /\ deadline_str.s \in {"N/A", "n/a", ""})
    THEN None
    ELSE LET r == IF source = "grants.gov" THEN _parse_grants_date(deadline_str)
                  ELSE IF source = "sam.gov" THEN _parse_sam_date(deadline_str)
                  ELSE _parse_generic_date(deadline_str)
         IN  IF IsExc(r) /\ r.s \in {"ValueError", "TypeError"} THEN None ELSE r

parse_iso_date(iso_str) ==
    IF iso_str = None \/ (iso_str.k = "text" /\ iso_str.s = "")
    THEN None
    ELSE LET dt == ReadIso(iso_str)
         IN  IF IsExc(dt) THEN None ELSE dt

(***************************************************************************)
(* pipeline/filters.py                                                     *)
(***************************************************************************)
\* is_expired with the comparison written <= (a deadline on the reference date
\* counts as passed)
is_expired_inclusive(deadline_iso, reference_date, now) ==
    IF deadline_iso = None THEN TRUE
    ELSE LET ref_date == IF reference_date = None THEN now ELSE reference_date
             deadline_dt == parse_iso_date(deadline_iso)
         IN  IF deadline_dt = None THEN TRUE
             ELSE ~DateLess(ref_date, DateOf(deadline_dt))

\* is_expired; now is what date.today() returns
is_expired(deadline_iso, reference_date, now) ==
    IF deadline_iso = None THEN TRUE
    ELSE LET ref_date == IF reference_date = None THEN now ELSE reference_date
             deadline_dt == parse_iso_date(deadline_iso)
         IN  IF deadline_dt = None THEN TRUE
             ELSE DateLess(DateOf(deadline_dt), ref_date)

\* filter_freshness_only that tests the raw deadline for presence only
filter_presence_only(record, source, reference_date, now) ==
    IF record.deadline = None
    THEN [record |-> None, reason |-> "expired"]
    ELSE [record |-> record, reason |-> ""]

\* v is an exception that a call let through, not a value it returned
IsRaised(v) == "k" \in DOMAIN v /\ IsExc(v)

\* filter_freshness_only that gives a reason of its own to a record without a
\* usable deadline
filter_names_missing_deadline(record, source, reference_date, now) ==
    LET raw_deadline == record.deadline
        deadline_iso == normalize_deadline(raw_deadline, source)
    IN  IF IsExc(deadline_iso) THEN deadline_iso
        ELSE IF deadline_iso = None
        THEN [record |-> None, reason |-> "no_deadline"]
        ELSE IF is_expired(deadline_iso, reference_date, now)
        THEN [record |-> None, reason |-> "expired"]
        ELSE [record |-> record, reason |-> ""]

\* An exception that normalize_deadline lets through leaves the filter too
filter_freshness_only(record, source, reference_date, now) ==
    LET raw_deadline == record.deadline
        deadline_iso == normalize_deadline(raw_deadline, source)
    IN  IF IsExc(deadline_iso) THEN deadline_iso
        ELSE IF is_expired(deadline_iso, reference_date, now)
        THEN [record |-> None, reason |-> "expired"]
        ELSE [record |-> record, reason |-> ""]

(***************************************************************************)
(* pipeline/storage.py: OpportunityStorage                                 *)
(*                                                                         *)
(* A feed record holds opportunity_id, title, description, deadline,       *)
(* funding_amount and notice_type; a key the feed leaves out reads NULL    *)
(* (record.get).  The columns agency, naics_code, cfda_numbers, url and    *)
(* matched_* are written exactly like title and are left out.              *)
(***************************************************************************)
Rec(oid, title, description, deadline, funding, notice) ==
    [opportunity_id |-> oid, title |-> title, description |-> description,
     deadline |-> deadline, funding_amount |-> funding, notice_type |-> notice]

\* "if not x" on an Optional[str]
Falsy(x) == x = NULL \/ x = ""

\* SELECT id FROM opportunities WHERE opportunity_id = ?
SelectByOppId(db, opportunity_id) ==
    {i \in 1..Len(db.opps) : db.opps[i].opportunity_id = opportunity_id}

\* UPDATE opportunities SET ... WHERE opportunity_id = ?
UpdateRow(row, record, deadline) ==
    [row EXCEPT !.title = record.title,
                !.description = record.description,
                !.deadline = deadline,
                !.funding_amount = record.funding_amount,
                !.notice_type = record.notice_type,
                !.touched = TRUE]

\* INSERT INTO opportunities (...) VALUES (...)
NewRow(db, record, source, deadline) ==
    [id |-> Len(db.opps) + 1, opportunity_id |-> record.opportunity_id,
     source |-> source, title |-> record.title,
     description |-> record.description, deadline |-> deadline,
     funding_amount |-> record.funding_amount,
     notice_type |-> record.notice_type, touched |-> FALSE]

\* upsert_opportunity that leaves a row it finds as it is (INSERT OR IGNORE)
upsert_keep_first(db, record, source) ==
    LET opportunity_id == record.opportunity_id
        deadline == normalize_deadline(record.deadline, source)
    IN  IF Falsy(opportunity_id) THEN [db |-> db, ret |-> FALSE, wrote |-> FALSE]
        ELSE IF SelectByOppId(db, opportunity_id) # {}
        THEN [db |-> db, ret |-> FALSE, wrote |-> FALSE]
        ELSE [db |-> [db EXCEPT !.opps = Append(@, NewRow(db, record, source, deadline))],
              ret |-> TRUE, wrote |-> TRUE]

\* upsert_opportunity that looks the row up by (opportunity_id, source)
upsert_by_source(db, record, source) ==
    LET opportunity_id == record.opportunity_id
        deadline == normalize_deadline(record.deadline, source)
        existing == {i \in SelectByOppId(db, opportunity_id) : db.opps[i].source = source}
    IN  IF Falsy(opportunity_id) THEN [db |-> db, ret |-> FALSE, wrote |-> FALSE]
        ELSE IF existing # {}
        THEN [db |-> [db EXCEPT !.opps =
                        [i \in 1..Len(@) |->
                            IF i \in existing THEN UpdateRow(@[i], record, deadline)
                            ELSE @[i]]],
              ret |-> FALSE, wrote |-> TRUE]
        ELSE [db |-> [db EXCEPT !.opps = Append(@, NewRow(db, record, source, deadline))],
              ret |-> TRUE, wrote |-> TRUE]

\* upsert_opportunity as INSERT OR REPLACE: the row found is deleted and the
\* record is inserted under a new primary key, with the source of the run
upsert_replace(db, record, source) ==
    LET opportunity_id == record.opportunity_id
        deadline == normalize_deadline(record.deadline, source)
        existing == SelectByOppId(db, opportunity_id)
    IN  IF Falsy(opportunity_id) THEN [db |-> db, ret |-> FALSE, wrote |-> FALSE]
        ELSE IF existing # {}
        THEN [db |-> [db EXCEPT !.opps =
                        [i \in 1..Len(@) |->
                            IF i \in existing
                            THEN [NewRow(db, record, source, deadline)
                                     EXCEPT !.touched = TRUE]
                            ELSE @[i]]],
              ret |-> FALSE, wrote |-> TRUE]
        ELSE [db |-> [db EXCEPT !.opps = Append(@, NewRow(db, record, source, deadline))],
              ret |-> TRUE, wrote |-> TRUE]

\* upsert_opportunity on the connection's view db: the view after the call,
\* the value returned, and whether a statement wrote to the table
upsert_opportunity(db, record, source) ==
    LET opportunity_id == record.opportunity_id
        deadline == normalize_deadline(record.deadline, source)
        existing == SelectByOppId(db, opportunity_id)
    IN  IF Falsy(opportunity_id) THEN [db |-> db, ret |-> FALSE, wrote |-> FALSE]
        ELSE IF existing # {}
        THEN [db |-> [db EXCEPT !.opps =
                        [i \in 1..Len(@) |->
                            IF i \in existing THEN UpdateRow(@[i], record, deadline)
                            ELSE @[i]]],
              ret |-> FALSE, wrote |-> TRUE]
        ELSE [db |-> [db EXCEPT !.opps = Append(@, NewRow(db, record, source, deadline))],
              ret |-> TRUE, wrote |-> TRUE]

(***************************************************************************)
(* pipeline/storage.py: IngestRunTracker                                   *)
(***************************************************************************)
EmptyDb == [opps |-> <<>>, runs |-> <<>>]

\* The column defaults of a new ingest_runs row
RunRowDefaults ==
    [source |-> "", status |-> "running", records_fetched |-> 0, records_filtered_expired |-> 0,
     records_filtered_capability |-> 0, records_inserted |-> 0,
     records_updated |-> 0, error_message |-> NULL]

\* IngestRunTracker.__init__: INSERT INTO ingest_runs (source) VALUES (?)
InsertRun(db, source) ==
    [db EXCEPT !.runs = Append(@, [RunRowDefaults EXCEPT !.source = source])]

NewTracker(run_id, source) ==
    [run_id |-> run_id, source |-> source, records_fetched |-> 0,
     records_filtered_expired |-> 0, records_filtered_capability |-> 0,
     records_inserted |-> 0, records_updated |-> 0]

NoTracker == NewTracker(0, "")

\* "if error_message" on an Optional[str]
StatusOf(error_message) ==
    IF Falsy(error_message) THEN "completed" ELSE "failed"

\* IngestRunTracker.complete, its UPDATE ingest_runs ... WHERE id = ?
complete_update(db, t, error_message) ==
    [db EXCEPT !.runs[t.run_id] =
        [@ EXCEPT !.status = StatusOf(error_message),
                  !.records_fetched = t.records_fetched,
                  !.records_filtered_expired = t.records_filtered_expired,
                  !.records_filtered_capability = t.records_filtered_capability,
                  !.records_inserted = t.records_inserted,
                  !.records_updated = t.records_updated,
                  !.error_message = error_message]]

(***************************************************************************)
(* Inputs                                                                  *)
(***************************************************************************)
Sources == {"grants.gov", "sam.gov"}

StartDays == {Date(2026, 1, 1)}

\* What a feed can yield.  A feed of kind "long" is a long run of two records.
FeedRecords(source, kind) ==
    IF kind = "long"
    THEN {Rec("GR-1", "t1", "d1", Digits(<<1, 2, 3, 1, 2, 0, 9, 9>>), "500", NULL),
          Rec("GR-2", "t1", "d1", None, NULL, NULL)}
    ELSE IF source = "grants.gov"
    THEN {Rec("GR-1", "t1", "d1", Digits(<<1, 2, 3, 1, 2, 0, 9, 9>>), "500", NULL),
          Rec("GR-1", "t2", NULL, Digits(<<0, 1, 0, 1, 2, 0, 2, 6>>), NULL, NULL),
          Rec("GR-2", "t1", "long", Digits(<<1, 2, 3, 1, 2, 0, 9, 9>>), NULL, NULL),
          Rec("GR-2", "t1", "d1", Digits(<<1, 3, 0, 1, 2, 0, 2, 6>>), NULL, NULL),
          Rec(NULL, "t1", "d1", Digits(<<1, 2, 3, 1, 2, 0, 9, 9>>), NULL, NULL)}
    ELSE {Rec("GR-1", "t3", "d1", IsoTz(2026, 1, 1, 2, 0, 0, 5), NULL, "Sources Sought"),
          Rec("N-1", "t1", NULL, IsoTz(2026, 1, 1, 20, 0, 0, -5), NULL, "Solicitation"),
          Rec("N-1", "t2", "d1", Text("N/A"), NULL, "Solicitation"),
          Rec("", "t1", "d1", IsoTz(2026, 6, 1, 12, 0, 0, 0), NULL, NULL)}

\* str(e) of the exceptions a fetch raises.  "" is the message of an exception
\* built without arguments, such as the MemoryError of reading a whole extract
\* or response into memory.
FetchMessages(source) ==
    IF source = "sam.gov" THEN {"", "SAM_API_KEY is not configured"}
    ELSE {"", "no element found: line 1, column 0"}

SqliteMessage == "database is locked"

\* str(e) of the OverflowError of datetime.astimezone
OverflowMessage == "date value out of range"

\* wrote, oid: the pass just made wrote the row of oid; expired: the pass just
\* made dropped the record of this identifier as expired; feedFailed: the feed
\* of the run could not be reached; handled: the except block ran to its end
NoHist == [wrote |-> FALSE, oid |-> NULL, expired |-> NULL, feedFailed |-> FALSE,
           handled |-> FALSE]

IdleFilter == fcall = [deadline |-> None, ref |-> None, st |-> "idle", result |-> FALSE]

IdleNormalize ==
    ncall = [deadline |-> None, source |-> "", st |-> "idle", result |-> None,
             filtered |-> None]

\* No adapter is iterated
NoAdapter == [source |-> "", items |-> <<>>, at |-> 0, st |-> "idle", yielded |-> <<>>]

IdleAdapter == adapter = NoAdapter

\* No overlapping index builds
NoBuilders == <<>>

IdleBuilders == builders = NoBuilders

IdleStore == conn = EmptyDb /\ disk = EmptyDb /\ calls = <<>>

\* Before the first run; feed.left bounds the events to come
IdlePipe(kind, budget) ==
    /\ pc = "idle"
    /\ tracker = NoTracker
    /\ feed = [source |-> "", kind |-> kind, left |-> budget]
    /\ err = NULL
    /\ hist = NoHist

\* A file that does not exist; by is the build that wrote a file (history)
NoFile == [exists |-> FALSE, data |-> <<>>, by |-> 0]

IdleGen == [pc |-> "idle", builds |-> 0, batch_size |-> 1, opportunities |-> <<>>,
            texts |-> <<>>, id_map |-> <<>>, all_embeddings |-> <<>>, i |-> 0,
            before |-> [index |-> NoFile, id_map |-> NoFile]]

\* Two processes that have not called generate_index yet
TwoBuilders == <<IdleGen, IdleGen>>

IdleIndex ==
    /\ gen = IdleGen
    /\ files = [index |-> NoFile, id_map |-> NoFile]

\* The backend before its first request: nothing loaded.  _index and _id_map
\* are the lazily loaded copies of the two files.
NoService == [k |-> "service", _index |-> None, _id_map |-> None, st |-> "idle",
              request |-> None, response |-> None]

IdleService == svc = NoService

\* No run_pipeline invocation yet
NoPlan == [sources |-> <<>>, st |-> "idle"]

IdlePlan == plan = NoPlan

\* No concurrent ingest processes.  unique: the opportunities table declares
\* opportunity_id UNIQUE; lock: the connection holding the write lock of the
\* database file (0: none); conns: the connections
NoPeers == [unique |-> FALSE, lock |-> 0, conns |-> <<>>]

IdlePeers == peers = NoPeers

(***************************************************************************)
(* pipeline/orchestrator.py: _process_source                               *)
(***************************************************************************)
\* conn.commit() when n events are left: it succeeds, or sqlite3 raises
CommitOutcomes(n) == IF n > 0 THEN {TRUE, FALSE} ELSE {TRUE}

Quiet(h) == [h EXCEPT !.wrote = FALSE, !.oid = NULL, !.expired = NULL]

\* tracker = IngestRunTracker(conn, source_name); storage = OpportunityStorage(conn)
\* A run that ended in an exception ended the process: the next one opens a
\* new connection, which sees the committed database.
StartRun(source) ==
    /\ pc \in {"idle", "returned", "raised"}
    /\ feed.left > 0
    /\ feed.kind = "long" => Len(disk.runs) = 0
    /\ LET base == IF pc = "raised" THEN disk ELSE conn
           db == InsertRun(base, source)
       IN  /\ conn' = db
           /\ disk' = db
           /\ tracker' = NewTracker(Len(db.runs), source)
    /\ feed' = [feed EXCEPT !.source = source, !.left = @ - 1]
    /\ pc' = "loop"
    /\ err' = NULL
    /\ hist' = NoHist
    /\ UNCHANGED <<fcall, calls, today, ncall, adapter, builders, svc, plan, peers, gen, files>>

\* One pass of "for record in source.fetch()" over a record the feed yields
ProcessRecord(record) ==
    /\ pc = "loop"
    /\ feed.left > 0
    /\ LET t1 == [tracker EXCEPT !.records_fetched = @ + 1]
           f == filter_freshness_only(record, feed.source, None, today)
       IN  IF IsRaised(f)
           THEN /\ tracker' = t1
                /\ pc' = "except"
                /\ err' = OverflowMessage
                /\ hist' = Quiet(hist)
                /\ feed' = [feed EXCEPT !.left = @ - 1]
                /\ UNCHANGED <<conn, disk>>
           ELSE IF f.record = None
           THEN /\ tracker' = IF f.reason = "expired"
                               THEN [t1 EXCEPT !.records_filtered_expired = @ + 1]
                               ELSE t1
                /\ hist' = [Quiet(hist) EXCEPT !.expired =
                               IF f.reason = "expired" THEN record.opportunity_id
                               ELSE NULL]
                /\ feed' = [feed EXCEPT !.left = @ - 1]
                /\ UNCHANGED <<conn, disk, pc, err>>
           ELSE LET u == upsert_opportunity(conn, f.record, feed.source)
                    t2 == IF u.ret THEN [t1 EXCEPT !.records_inserted = @ + 1]
                          ELSE [t1 EXCEPT !.records_updated = @ + 1]
                IN  /\ tracker' = t2
                    /\ conn' = u.db
                    /\ hist' = [Quiet(hist) EXCEPT !.wrote = u.wrote,
                                                   !.oid = record.opportunity_id]
                    /\ IF t2.records_fetched % COMMIT_EVERY = 0
                       THEN \E ok \in CommitOutcomes(feed.left - 1) :
                              IF ok
                              THEN /\ disk' = u.db
                                   /\ feed' = [feed EXCEPT !.left = @ - 1]
                                   /\ UNCHANGED <<pc, err>>
                              ELSE /\ pc' = "except"
                                   /\ err' = SqliteMessage
                                   /\ feed' = [feed EXCEPT !.left = @ - 2]
                                   /\ UNCHANGED disk
                       ELSE /\ feed' = [feed EXCEPT !.left = @ - 1]
                            /\ UNCHANGED <<disk, pc, err>>
    /\ UNCHANGED <<fcall, calls, today, ncall, adapter, builders, svc, plan, peers, gen, files>>

\* An exception out of source.fetch(): the SAM key is not configured, the
\* response is no JSON, the extract is no XML or does not fit in memory
RaiseInFetch(msg) ==
    /\ pc = "loop"
    /\ pc' = "except"
    /\ err' = msg
    /\ hist' = Quiet(hist)
    /\ UNCHANGED <<fcall, conn, disk, calls, tracker, today, ncall, adapter, builders, svc, plan, peers, feed, gen, files>>

\* sqlite3 raises in a statement of upsert_opportunity, for a record that
\* passed the filter
RaiseInUpsert(record) ==
    /\ pc = "loop"
    /\ feed.left > 0
    /\ ~IsRaised(filter_freshness_only(record, feed.source, None, today))
    /\ filter_freshness_only(record, feed.source, None, today).record # None
    /\ ~Falsy(record.opportunity_id)
    /\ feed' = [feed EXCEPT !.left = @ - 1]
    /\ tracker' = [tracker EXCEPT !.records_fetched = @ + 1]
    /\ pc' = "except"
    /\ err' = SqliteMessage
    /\ hist' = Quiet(hist)
    /\ UNCHANGED <<fcall, conn, disk, calls, today, ncall, adapter, builders, svc, plan, peers, gen, files>>

\* The generator is exhausted
FeedEnds ==
    /\ pc = "loop"
    /\ pc' = "final"
    /\ hist' = Quiet(hist)
    /\ UNCHANGED <<fcall, conn, disk, calls, tracker, today, ncall, adapter, builders, svc, plan, peers, feed, err, gen, files>>

\* The feed cannot be reached: a SAM.gov page request fails (sam.py "break"),
\* or the Grants.gov directory or ZIP download fails (grants.py "return").
\* The generator prints the error and ends.
FeedUnreachable ==
    /\ pc = "loop"
    /\ feed.source = "grants.gov" => tracker.records_fetched = 0
    /\ pc' = "final"
    /\ hist' = [Quiet(hist) EXCEPT !.feedFailed = TRUE]
    /\ UNCHANGED <<fcall, conn, disk, calls, tracker, today, ncall, adapter, builders, svc, plan, peers, feed, err, gen, files>>

\* "# Final commit": conn.commit()
FinalCommit ==
    /\ pc = "final"
    /\ \E ok \in CommitOutcomes(feed.left) :
          IF ok
          THEN disk' = conn /\ pc' = "complete" /\ UNCHANGED <<err, feed>>
          ELSE /\ pc' = "except"
               /\ err' = SqliteMessage
               /\ feed' = [feed EXCEPT !.left = @ - 1]
               /\ UNCHANGED disk
    /\ hist' = Quiet(hist)
    /\ UNCHANGED <<fcall, conn, calls, tracker, today, ncall, adapter, builders, svc, plan, peers, gen, files>>

\* tracker.complete() of the success path: the UPDATE, then conn.commit()
Complete ==
    /\ pc = "complete"
    /\ conn' = complete_update(conn, tracker, NULL)
    /\ \E ok \in CommitOutcomes(feed.left) :
          IF ok
          THEN disk' = conn' /\ pc' = "returned" /\ UNCHANGED <<err, feed>>
          ELSE /\ pc' = "except"
               /\ err' = SqliteMessage
               /\ feed' = [feed EXCEPT !.left = @ - 1]
               /\ UNCHANGED disk
    /\ hist' = Quiet(hist)
    /\ UNCHANGED <<fcall, calls, tracker, today, ncall, adapter, builders, svc, plan, peers, gen, files>>

\* except Exception as e: tracker.complete(error_message=str(e)); raise
HandleError ==
    /\ pc = "except"
    /\ conn' = complete_update(conn, tracker, err)
    /\ \E ok \in CommitOutcomes(feed.left) :
          IF ok
          THEN /\ disk' = conn'
               /\ hist' = [Quiet(hist) EXCEPT !.handled = TRUE]
               /\ UNCHANGED feed
          ELSE /\ feed' = [feed EXCEPT !.left = @ - 1]
               /\ hist' = Quiet(hist)
               /\ UNCHANGED disk
    /\ pc' = "raised"
    /\ UNCHANGED <<fcall, calls, tracker, today, ncall, adapter, builders, svc, plan, peers, err, gen, files>>

\* Midnight passes between two runs
AdvanceDay ==
    /\ pc \in {"idle", "returned", "raised"}
    /\ today \in StartDays
    /\ today' = NextDay(today)
    /\ UNCHANGED <<fcall, ncall, adapter, builders, conn, disk, calls, pc, tracker, feed, err,
                   hist, gen, files,
                   svc, plan, peers>>

Init ==
    /\ IdleFilter /\ IdleStore /\ IdlePipe("mixed", MaxEvents) /\ IdleIndex
    /\ IdleNormalize /\ IdleAdapter /\ IdleBuilders /\ IdleService /\ IdlePlan /\ IdlePeers
    /\ today \in StartDays

Next ==
    \/ \E source \in Sources : StartRun(source)
    \/ \E record \in FeedRecords(feed.source, feed.kind) : ProcessRecord(record)
    \/ \E msg \in FetchMessages(feed.source) : RaiseInFetch(msg)
    \/ \E record \in FeedRecords(feed.source, feed.kind) : RaiseInUpsert(record)
    \/ FeedEnds
    \/ FeedUnreachable
    \/ FinalCommit
    \/ Complete
    \/ HandleError
    \/ AdvanceDay

Spec == Init /\ [][Next]_vars

\* One long run, past the first periodic commit
LongFeed == COMMIT_EVERY + 2

InitBatch ==
    /\ IdleFilter /\ IdleStore /\ IdlePipe("long", LongFeed) /\ IdleIndex
    /\ IdleNormalize /\ IdleAdapter /\ IdleBuilders /\ IdleService /\ IdlePlan /\ IdlePeers
    /\ today \in StartDays

SpecBatch == InitBatch /\ [][Next]_vars

(***************************************************************************)
(* pipeline/orchestrator.py: run_pipeline                                  *)
(*                                                                         *)
(* plan.sources is sources_to_run, by source name; plan.st says where the  *)
(* invocation stands.  Every _process_source call starts by inserting its  *)
(* ingest_runs row, so the loop has made Len(disk.runs) calls.             *)
(***************************************************************************)
\* The names a caller can pass in sources
SourceNames == Sources \cup {"other"}

SourceLists ==
    {List(<<>>)} \cup {List(<<a>>) : a \in SourceNames}
                 \cup {List(<<a, b>>) : a \in SourceNames, b \in SourceNames}

RECURSIVE KnownSources(_)
KnownSources(names) ==
    IF names = <<>> THEN <<>>
    ELSE IF Head(names) \in Sources
    THEN <<Head(names)>> \o KnownSources(Tail(names))
    ELSE KnownSources(Tail(names))

\* "# Determine which sources to run"
sources_to_run(sources, skip_grants, skip_sam) ==
    IF sources # None /\ sources.items # <<>>
    THEN KnownSources(sources.items)
    ELSE (IF ~skip_grants THEN <<"grants.gov">> ELSE <<>>)
         \o (IF ~skip_sam THEN <<"sam.gov">> ELSE <<>>)

\* run_pipeline up to its loop
RunPipeline(sources, skip_grants, skip_sam) ==
    /\ plan.st = "idle"
    /\ \E to_run \in {sources_to_run(sources, skip_grants, skip_sam)} :
          plan' = [sources |-> to_run,
                   st |-> IF to_run = <<>> THEN "returned" ELSE "running"]
    /\ UNCHANGED <<fcall, conn, disk, calls, pc, tracker, today, ncall, adapter, builders, feed, err, hist, gen,
                   files, svc, peers>>

\* for source in sources_to_run: result = _process_source(conn, source)
PlanNextSource ==
    /\ plan.st = "running"
    /\ pc \in {"idle", "returned"}
    /\ Len(disk.runs) < Len(plan.sources)
    /\ StartRun(plan.sources[Len(disk.runs) + 1])

\* The exception that _process_source raised again leaves the loop and
\* run_pipeline
PlanRaised ==
    /\ plan.st = "running"
    /\ pc = "raised"
    /\ plan' = [plan EXCEPT !.st = "raised"]
    /\ UNCHANGED <<fcall, conn, disk, calls, pc, tracker, today, ncall, adapter, builders, feed, err, hist, gen,
                   files, svc, peers>>

\* The loop is through: conn.close(), the summary, return results
PlanReturns ==
    /\ plan.st = "running"
    /\ pc = "returned"
    /\ Len(disk.runs) = Len(plan.sources)
    /\ plan' = [plan EXCEPT !.st = "returned"]
    /\ UNCHANGED <<fcall, conn, disk, calls, pc, tracker, today, ncall, adapter, builders, feed, err, hist, gen,
                   files, svc, peers>>

InitPipeline ==
    /\ IdleFilter /\ IdleStore /\ IdlePipe("mixed", MaxEvents) /\ IdleIndex
    /\ IdleNormalize /\ IdleAdapter /\ IdleBuilders /\ IdleService /\ IdlePlan /\ IdlePeers
    /\ today \in StartDays

NextPipeline ==
    \/ /\ plan.st = "idle"
       /\ \E sources \in {None} \cup SourceLists, skip_grants \in BOOLEAN, skip_sam \in BOOLEAN :
             RunPipeline(sources, skip_grants, skip_sam)
    \/ PlanNextSource
    \/ \E record \in FeedRecords(feed.source, feed.kind) : ProcessRecord(record)
    \/ \E msg \in FetchMessages(feed.source) : RaiseInFetch(msg)
    \/ \E record \in FeedRecords(feed.source, feed.kind) : RaiseInUpsert(record)
    \/ FeedEnds
    \/ FeedUnreachable
    \/ FinalCommit
    \/ Complete
    \/ HandleError
    \/ PlanRaised
    \/ PlanReturns

SpecPipeline == InitPipeline /\ [][NextPipeline]_vars

(***************************************************************************)
(* _process_source to its end.  The process can be interrupted while a run *)
(* is under way (KeyboardInterrupt, SystemExit, a kill): "except           *)
(* Exception" does not catch it, the connection is dropped with what it    *)
(* had not committed.  A run that is under way goes on (weak fairness): a  *)
(* finite feed ends, and the commit, complete() and the except block are   *)
(* run once reached.  Starting a run and interrupting one are up to the    *)
(* environment.                                                            *)
(***************************************************************************)
Interrupted ==
    /\ pc \in {"loop", "final", "complete", "except"}
    /\ pc' = "raised"
    /\ conn' = disk
    /\ hist' = Quiet(hist)
    /\ UNCHANGED <<fcall, ncall, adapter, builders, disk, calls, tracker, today, feed, err,
                   gen, files, svc, plan, peers>>

\* The steps of a run under way
RunStep ==
    \/ \E record \in FeedRecords(feed.source, feed.kind) : ProcessRecord(record)
    \/ \E msg \in FetchMessages(feed.source) : RaiseInFetch(msg)
    \/ \E record \in FeedRecords(feed.source, feed.kind) : RaiseInUpsert(record)
    \/ FeedEnds
    \/ FeedUnreachable
    \/ FinalCommit
    \/ Complete
    \/ HandleError

InitRuns ==
    /\ IdleFilter /\ IdleStore /\ IdlePipe("mixed", MaxLiveEvents) /\ IdleIndex
    /\ IdleNormalize /\ IdleAdapter /\ IdleBuilders /\ IdleService /\ IdlePlan /\ IdlePeers
    /\ today \in StartDays

NextRuns ==
    \/ \E source \in Sources : StartRun(source)
    \/ RunStep
    \/ Interrupted

SpecRuns ==
    /\ InitRuns /\ [][NextRuns]_vars
    /\ WF_vars(FeedEnds) /\ WF_vars(FinalCommit) /\ WF_vars(Complete) /\ WF_vars(HandleError)

(***************************************************************************)
(* embeddings/generator.py: EmbeddingGenerator                             *)
(*                                                                         *)
(* A text is modelled by its parts, [title, description, cut], and a       *)
(* vector by the text it embeds, [of, unit]; unit says that the vector has *)
(* been L2-normalized.  The description "long" stands for one of more      *)
(* than DESCRIPTION_CAP characters.                                        *)
(***************************************************************************)
StrLen(str) == IF str = "long" THEN DESCRIPTION_CAP + 1 ELSE 2

_build_searchable_text(title, description) ==
    LET t == IF Falsy(title) THEN "" ELSE title
        d == IF Falsy(description) THEN "" ELSE description
    IN  [title |-> t, description |-> d, cut |-> StrLen(d) > DESCRIPTION_CAP]

\* The embedding provider: one vector per text, in the order of the texts
_get_embedding(texts) ==
    [j \in 1..Len(texts) |-> [of |-> texts[j], unit |-> FALSE]]

Min(a, b) == IF a < b THEN a ELSE b

\* texts[i:i + batch_size + 1]
batch_one_too_long(texts, i, batch_size) ==
    SubSeq(texts, i + 1, Min(i + batch_size + 1, Len(texts)))

\* texts[i:i + batch_size]
batch(texts, i, batch_size) ==
    SubSeq(texts, i + 1, Min(i + batch_size, Len(texts)))

\* np.vstack
vstack(arrays) ==
    LET RECURSIVE go(_)
        go(k) == IF k > Len(arrays) THEN <<>> ELSE arrays[k] \o go(k + 1)
    IN  go(1)

\* faiss.normalize_L2
normalize_L2(array) == [j \in 1..Len(array) |-> [array[j] EXCEPT !.unit = TRUE]]

\* The loop "for db_id, opp_id, title, description, source in opportunities"
TextsOf(opportunities) ==
    [j \in 1..Len(opportunities) |->
        _build_searchable_text(opportunities[j].title, opportunities[j].description)]

\* The id_map whose db_id is the position of the row in the result of the
\* SELECT (enumerate), not its primary key
id_map_of_positions(opportunities) ==
    [j \in 1..Len(opportunities) |->
        [db_id |-> j - 1,
         opportunity_id |-> opportunities[j].opportunity_id,
         source |-> opportunities[j].source]]

IdMapOf(opportunities) ==
    [j \in 1..Len(opportunities) |->
        [db_id |-> opportunities[j].id,
         opportunity_id |-> opportunities[j].opportunity_id,
         source |-> opportunities[j].source]]

\* generate_index up to the first batch: SELECT ... ORDER BY id on a
\* connection of its own, the early return when the table is empty, and the
\* texts and id_map
GenStart(batch_size) ==
    /\ gen.pc \in {"idle", "done", "failed", "killed"}
    /\ gen.builds < MaxBuilds
    /\ LET opportunities == disk.opps
       IN  gen' = [pc |-> IF opportunities = <<>> THEN "done" ELSE "embed",
                   builds |-> gen.builds + 1,
                   batch_size |-> batch_size,
                   opportunities |-> opportunities,
                   texts |-> TextsOf(opportunities),
                   id_map |-> IdMapOf(opportunities),
                   all_embeddings |-> <<>>,
                   i |-> 0,
                   before |-> files]
    /\ UNCHANGED <<fcall, conn, disk, calls, pc, tracker, today, ncall, adapter, builders, svc, plan, peers, feed, err, hist, files>>

\* One pass of "for i in range(0, len(texts), self.batch_size)"
GenEmbedBatch ==
    /\ gen.pc = "embed"
    /\ LET embeddings == _get_embedding(batch(gen.texts, gen.i, gen.batch_size))
           next_i == gen.i + gen.batch_size
       IN  gen' = [gen EXCEPT !.all_embeddings = Append(@, embeddings),
                              !.i = next_i,
                              !.pc = IF next_i < Len(gen.texts) THEN "embed"
                                     ELSE "write_index"]
    /\ UNCHANGED <<fcall, conn, disk, calls, pc, tracker, today, ncall, adapter, builders, svc, plan, peers, feed, err, hist, files>>

\* The state in which an exception of the provider leaves the build, kept for a
\* build that saves what it has embedded so far
embed_failure_saves_partial(g, f) ==
    [gen |-> [g EXCEPT !.pc = "failed"],
     files |-> [f EXCEPT !.index = [exists |-> TRUE,
                                    data |-> normalize_L2(vstack(g.all_embeddings)),
                                    by |-> g.builds]]]

\* generate_index has no except clause: the exception of _get_embedding leaves
\* through "finally" and nothing is written
embed_failure(g, f) ==
    [gen |-> [g EXCEPT !.pc = "failed"], files |-> f]

\* self._get_embedding(batch) raises
GenEmbedFails ==
    /\ gen.pc = "embed"
    /\ gen' = embed_failure(gen, files).gen
    /\ files' = embed_failure(gen, files).files
    /\ UNCHANGED <<fcall, conn, disk, calls, pc, tracker, today, ncall, adapter, builders, svc, plan, peers, feed, err, hist>>

\* np.vstack, faiss.normalize_L2, index.add, faiss.write_index
GenWriteIndex ==
    /\ gen.pc = "write_index"
    /\ files' = [files EXCEPT !.index =
                    [exists |-> TRUE,
                     data |-> normalize_L2(vstack(gen.all_embeddings)),
                     by |-> gen.builds]]
    /\ gen' = [gen EXCEPT !.pc = "write_id_map"]
    /\ UNCHANGED <<fcall, conn, disk, calls, pc, tracker, today, ncall, adapter, builders, svc, plan, peers, feed, err, hist>>

\* with open(self.id_map_path, "w") as f: json.dump(id_map, f)
GenWriteIdMap ==
    /\ gen.pc = "write_id_map"
    /\ files' = [files EXCEPT !.id_map =
                    [exists |-> TRUE, data |-> gen.id_map, by |-> gen.builds]]
    /\ gen' = [gen EXCEPT !.pc = "done"]
    /\ UNCHANGED <<fcall, conn, disk, calls, pc, tracker, today, ncall, adapter, builders, svc, plan, peers, feed, err, hist>>

\* The process ends between the two writes
GenKilled ==
    /\ gen.pc = "write_id_map"
    /\ gen' = [gen EXCEPT !.pc = "killed"]
    /\ UNCHANGED <<fcall, conn, disk, calls, pc, tracker, today, ncall, adapter, builders, svc, plan, peers, feed, err, hist, files>>

\* An ingest run stores one record that passes the filter and commits
IngestCommitted(record, source) ==
    /\ feed.left > 0
    /\ filter_freshness_only(record, source, None, today).record # None
    /\ disk' = upsert_opportunity(disk, record, source).db
    /\ conn' = disk'
    /\ feed' = [feed EXCEPT !.left = @ - 1]
    /\ UNCHANGED <<fcall, calls, pc, tracker, today, ncall, adapter, builders, svc, plan, peers, err, hist, gen, files>>

InitIndex ==
    /\ IdleFilter /\ IdleStore /\ IdlePipe("mixed", MaxEvents) /\ IdleIndex
    /\ IdleNormalize /\ IdleAdapter /\ IdleBuilders /\ IdleService /\ IdlePlan /\ IdlePeers
    /\ today \in StartDays

NextIndex ==
    \/ \E source \in Sources : \E record \in FeedRecords(source, "mixed") :
          IngestCommitted(record, source)
    \/ \E batch_size \in 1..MaxBatch : GenStart(batch_size)
    \/ GenEmbedBatch
    \/ GenEmbedFails
    \/ GenWriteIndex
    \/ GenWriteIdMap
    \/ GenKilled

SpecIndex == InitIndex /\ [][NextIndex]_vars

(***************************************************************************)
(* embeddings/search.py: SemanticSearch                                    *)
(*                                                                         *)
(* A similarity score is an integer number of hundredths (0.91 is 91).     *)
(* The embedding of a query is modelled by what the index makes of it: the *)
(* rows of the index ranked by their inner product with the query.         *)
(***************************************************************************)
\* is_index_available: index_path.exists() and id_map_path.exists()
is_index_available(f) == f.index.exists /\ f.id_map.exists

\* The property "index": the cached index, or the file read into the cache
load_index(s, f) ==
    IF s._index # None THEN s
    ELSE IF ~f.index.exists THEN Exc("FileNotFoundError")
    ELSE [s EXCEPT !._index = f.index]

\* The property "id_map": the cached list, or the file read into the cache
load_id_map(s, f) ==
    IF s._id_map # None THEN s
    ELSE IF ~f.id_map.exists THEN Exc("FileNotFoundError")
    ELSE [s EXCEPT !._id_map = f.id_map]

\* index.search(query_embedding, search_k): the search_k best rows, best
\* first, as (score, idx) with idx counted from 0; FAISS fills the slots it
\* has no row for with idx -1 and the lowest score
index_search(ranked, search_k) ==
    [p \in 1..search_k |->
        IF p <= Len(ranked) THEN ranked[p] ELSE [idx |-> -1, score |-> -1000]]

\* search that applies no source filter in its loop
search_loop_unfiltered(s, f, neighbours, k, source_filter, min_score) ==
    LET RECURSIVE go(_, _, _)
        go(p, sv, results) ==
            IF p > Len(neighbours) THEN [svc |-> sv, ret |-> List(results)]
            ELSE LET score == neighbours[p].score
                     idx == neighbours[p].idx
                 IN  IF idx = -1 THEN go(p + 1, sv, results)
                     ELSE IF score < min_score THEN go(p + 1, sv, results)
                     ELSE LET s1 == load_id_map(sv, f)
                          IN  IF IsExc(s1) THEN [svc |-> sv, ret |-> s1]
                              ELSE IF idx + 1 > Len(s1._id_map.data)
                              THEN [svc |-> s1, ret |-> Exc("IndexError")]
                              ELSE LET entry == s1._id_map.data[idx + 1]
                                       r == Append(results,
                                                [db_id |-> entry.db_id,
                                                 opportunity_id |-> entry.opportunity_id,
                                                 source |-> entry.source,
                                                 score |-> score])
                                   IN  IF Len(r) >= k THEN [svc |-> s1, ret |-> List(r)]
                                       ELSE go(p + 1, s1, r)
    IN  go(1, s, <<>>)

\* The loop "for score, idx in zip(scores[0], indices[0])" of search: the
\* service after it (the id_map is loaded by the first entry it looks up) and
\* the list returned, or the exception raised
search_loop(s, f, neighbours, k, source_filter, min_score) ==
    LET RECURSIVE go(_, _, _)
        go(p, sv, results) ==
            IF p > Len(neighbours) THEN [svc |-> sv, ret |-> List(results)]
            ELSE LET score == neighbours[p].score
                     idx == neighbours[p].idx
                 IN  IF idx = -1 THEN go(p + 1, sv, results)
                     ELSE IF score < min_score THEN go(p + 1, sv, results)
                     ELSE LET s1 == load_id_map(sv, f)
                          IN  IF IsExc(s1) THEN [svc |-> sv, ret |-> s1]
                              ELSE IF idx + 1 > Len(s1._id_map.data)
                              THEN [svc |-> s1, ret |-> Exc("IndexError")]
                              ELSE LET entry == s1._id_map.data[idx + 1]
                                   IN  IF ~Falsy(source_filter) /\ entry.source # source_filter
                                       THEN go(p + 1, s1, results)
                                       ELSE LET r == Append(results,
                                                    [db_id |-> entry.db_id,
                                                     opportunity_id |-> entry.opportunity_id,
                                                     source |-> entry.source,
                                                     score |-> score])
                                            IN  IF Len(r) >= k THEN [svc |-> s1, ret |-> List(r)]
                                                ELSE go(p + 1, s1, r)
    IN  go(1, s, <<>>)

\* search that retrieves k neighbours whether or not it filters by source
search_no_overfetch(s, f, ranked, k, source_filter, min_score) ==
    LET s0 == load_index(s, f)
        search_k == k
    IN  IF IsExc(s0) THEN [svc |-> s, ret |-> s0]
        ELSE search_loop(s0, f, index_search(ranked, search_k), k, source_filter,
                         min_score)

\* search(query, k, source_filter, min_score) once the query is embedded;
\* ranked is the ranking of the rows of the index for the query
search(s, f, ranked, k, source_filter, min_score) ==
    LET s0 == load_index(s, f)
        search_k == IF ~Falsy(source_filter) THEN k * 3 ELSE k
    IN  IF IsExc(s0) THEN [svc |-> s, ret |-> s0]
        ELSE search_loop(s0, f, index_search(ranked, search_k), k, source_filter,
                         min_score)

\* The rows of the index that a search of service s reads
IndexRows(s, f) ==
    IF s._index # None THEN Len(s._index.data)
    ELSE IF f.index.exists THEN Len(f.index.data) ELSE 0

\* The inner products a query can have with the rows
Scores == {40, 91}

\* Every ranking of n rows: each row once, scores not increasing
Rankings(n) ==
    {[p \in 1..n |-> [idx |-> perm[p], score |-> sc[p]]] :
        perm \in {f \in [1..n -> 0..(n - 1)] :
                    \A p, q \in 1..n : p # q => f[p] # f[q]},
        sc \in {g \in [1..n -> Scores] :
                    \A p \in 1..n : p < n => g[p] >= g[p + 1]}}

\* F applied to the value of v, which is computed once
Then(v, F(_)) == CHOOSE y \in {F(x) : x \in {v}} : TRUE

\* results.sort(key=similarity_score, reverse=True): best first, entries of
\* one score in the order they had (list.sort is stable)
SortByScore(items) ==
    LET insert(sorted, x) ==
            LET n == Cardinality({p \in 1..Len(sorted) :
                        sorted[p].similarity_score >= x.similarity_score})
            IN  SubSeq(sorted, 1, n) \o <<x>> \o SubSeq(sorted, n + 1, Len(sorted))
        RECURSIVE go(_, _)
        go(p, sorted) ==
            IF p > Len(items) THEN sorted
            ELSE Then(insert(sorted, items[p]), LAMBDA longer : go(p + 1, longer))
    IN  go(1, <<>>)

\* scores_by_id[db_id]: a dict keeps the last value given for a key
ScoreById(matches, db_id) ==
    LET last == CHOOSE p \in 1..Len(matches) :
                    /\ matches[p].db_id = db_id
                    /\ \A q \in 1..Len(matches) : matches[q].db_id = db_id => q <= p
    IN  matches[last].score

\* The rows of "SELECT ... FROM opportunities WHERE id IN (db_ids)", each as
\* the dict built from it.  The SELECT names no notice_type column, so the
\* dict has no such key.
DetailsOf(db, matches) ==
    LET db_ids == {matches[p].db_id : p \in 1..Len(matches)}
        rows == SelectSeq(db.opps, LAMBDA row : row.id \in db_ids)
    IN  [j \in 1..Len(rows) |->
            [id |-> rows[j].id,
             opportunity_id |-> rows[j].opportunity_id,
             source |-> rows[j].source,
             title |-> rows[j].title,
             description |-> rows[j].description,
             deadline |-> rows[j].deadline,
             funding_amount |-> rows[j].funding_amount,
             similarity_score |-> ScoreById(matches, rows[j].id)]]

\* search_with_details that returns the rows in the order of the SELECT
search_with_details_unsorted(s, f, db, ranked, k, source_filter) ==
    Then(search(s, f, ranked, k, source_filter, 0),
         LAMBDA m :
            IF IsExc(m.ret) THEN m
            ELSE IF m.ret.items = <<>> THEN [svc |-> m.svc, ret |-> List(<<>>)]
            ELSE [svc |-> m.svc, ret |-> List(DetailsOf(db, m.ret.items))])

\* search_with_details: the service after it, and the list returned or the
\* exception raised
search_with_details(s, f, db, ranked, k, source_filter) ==
    Then(search(s, f, ranked, k, source_filter, 0),
         LAMBDA m :
            IF IsExc(m.ret) THEN m
            ELSE IF m.ret.items = <<>> THEN [svc |-> m.svc, ret |-> List(<<>>)]
            ELSE [svc |-> m.svc,
                  ret |-> List(SortByScore(DetailsOf(db, m.ret.items)))])

(***************************************************************************)
(* backend/main.py: search_funding                                         *)
(*                                                                         *)
(* Every title and description of the model is one word, so a text         *)
(* contains a query when the query is that word or is empty.  The keys     *)
(* that the two searches add to each item for the frontend (link,          *)
(* response_deadline, grant_url, cfda_number) are left out.                *)
(***************************************************************************)
RFI_NOTICE_TYPES == {"Sources Sought", "Special Notice"}

\* text LIKE '%query%'
Like(text, query) == text # NULL /\ (query = "" \/ text = query)

\* dict.get(key)
Get(item, key) == IF key \in DOMAIN item THEN item[key] ELSE NULL

\* items[:limit]
Take(items, limit) == SubSeq(items, 1, Min(limit, Len(items)))

\* The order of the deadline column, a NULL below every timestamp
DeadlineKey(deadline) ==
    IF deadline = None THEN 0 - 1
    ELSE ((((deadline.y * 13 + deadline.mo) * 32 + deadline.d) * 24 + deadline.h) * 60
            + deadline.mi) * 60 + deadline.sec

\* ORDER BY deadline DESC LIMIT limit, rows of one deadline in table order
OrderByDeadlineDesc(rows, limit) ==
    LET insert(sorted, x) ==
            LET n == Cardinality({p \in 1..Len(sorted) :
                        DeadlineKey(sorted[p].deadline) >= DeadlineKey(x.deadline)})
            IN  SubSeq(sorted, 1, n) \o <<x>> \o SubSeq(sorted, n + 1, Len(sorted))
        RECURSIVE go(_, _)
        go(p, sorted) ==
            IF p > Len(rows) THEN Take(sorted, limit)
            ELSE Then(insert(sorted, rows[p]), LAMBDA longer : go(p + 1, longer))
    IN  go(1, <<>>)

\* WHERE (title LIKE ? OR description LIKE ?)
Matches(row, query) == Like(row.title, query) \/ Like(row.description, query)

\* The columns of base_sql (no id)
KeywordItem(row) ==
    [opportunity_id |-> row.opportunity_id, source |-> row.source, title |-> row.title,
     description |-> row.description, deadline |-> row.deadline,
     funding_amount |-> row.funding_amount, notice_type |-> row.notice_type]

\* The columns of the RFI query of _semantic_search
RfiItem(row) ==
    [id |-> row.id, opportunity_id |-> row.opportunity_id, source |-> row.source,
     title |-> row.title, description |-> row.description, deadline |-> row.deadline,
     funding_amount |-> row.funding_amount, notice_type |-> row.notice_type]

Response(grants, contracts, rfis, search_mode) ==
    [k |-> "response", grants |-> grants, contracts |-> contracts, rfis |-> rfis,
     search_mode |-> search_mode]

\* _keyword_search; it reads no source
_keyword_search(db, query, source, limit) ==
    LET found == SelectSeq(db.opps, LAMBDA row : Matches(row, query))
        grants == SelectSeq(found, LAMBDA row : row.source = "grants.gov")
        contracts == SelectSeq(found, LAMBDA row :
                        /\ row.source = "sam.gov"
                        /\ (row.notice_type = NULL \/ row.notice_type \notin RFI_NOTICE_TYPES))
        rfis == SelectSeq(found, LAMBDA row :
                        row.source = "sam.gov" /\ row.notice_type \in RFI_NOTICE_TYPES)
        items(rows) == LET o == OrderByDeadlineDesc(rows, limit)
                       IN  [j \in 1..Len(o) |-> KeywordItem(o[j])]
    IN  Response(items(grants), items(contracts), items(rfis), "keyword")

\* The loop "for item in sam_results" of _semantic_search
ContractsOf(sam_results, limit) ==
    Take(SelectSeq(sam_results, LAMBDA item :
            Get(item, "notice_type") \notin RFI_NOTICE_TYPES), limit)

\* The RFI query of _semantic_search
RfisOf(db, query, limit) ==
    LET o == OrderByDeadlineDesc(
                SelectSeq(db.opps, LAMBDA row :
                    /\ row.source = "sam.gov"
                    /\ row.notice_type \in RFI_NOTICE_TYPES
                    /\ Matches(row, query)), limit)
    IN  [j \in 1..Len(o) |-> RfiItem(o[j])]

\* _semantic_search: the service after it, and the response or the exception
_semantic_search(s, f, db, ranked, query, source, limit) ==
    Then(IF source # "sam.gov"
         THEN search_with_details(s, f, db, ranked, limit, "grants.gov")
         ELSE [svc |-> s, ret |-> List(<<>>)],
         LAMBDA g :
            IF IsExc(g.ret) THEN g
            ELSE IF source = "grants.gov"
            THEN [svc |-> g.svc,
                  ret |-> Response(Take(g.ret.items, limit), <<>>, <<>>, "semantic")]
            ELSE Then(search_with_details(g.svc, f, db, ranked, limit * 2, "sam.gov"),
                      LAMBDA c :
                         IF IsExc(c.ret) THEN c
                         ELSE [svc |-> c.svc,
                               ret |-> Response(Take(g.ret.items, limit),
                                                ContractsOf(c.ret.items, limit),
                                                RfisOf(db, query, limit),
                                                "semantic")]))

\* raise HTTPException(status_code=500, ...)
HttpError(e) == [k |-> "error", status_code |-> 500, detail |-> e.s]

\* What _embed_query makes of a query, seen from the index: the ranking of
\* its rows, or None when the embedding provider fails the request
Embedded(ranked) == [k |-> "ranked", rows |-> ranked]

\* search_funding on the committed database db
search_funding(s, f, db, embedding, query, source, limit, mode) ==
    IF mode = "semantic" /\ is_index_available(f)
    THEN IF embedding = None
         THEN [svc |-> s, ret |-> HttpError(Exc("APIConnectionError"))]
         ELSE Then(_semantic_search(s, f, db, embedding.rows, query, source, limit),
                   LAMBDA r : IF IsExc(r.ret) THEN [svc |-> r.svc, ret |-> HttpError(r.ret)]
                              ELSE r)
    ELSE [svc |-> s, ret |-> _keyword_search(db, query, source, limit)]

(***************************************************************************)
(* SemanticSearch.search on its own: every call, over every pair of files  *)
(* that a build writes from a table of up to MaxRows rows                  *)
(***************************************************************************)
\* The table: row j has id j and any source
IndexedTables ==
    UNION {{[j \in 1..n |->
                [id |-> j, opportunity_id |-> ToString(j), source |-> src[j],
                 title |-> "t1", description |-> "d1",
                 deadline |-> Iso(2099, 12, 31, 23, 59, 59),
                 funding_amount |-> NULL, notice_type |-> NULL, touched |-> FALSE]] :
             src \in [1..n -> Sources]} : n \in 1..MaxRows}

\* The two files as generate_index writes them from the rows opportunities
BuiltFiles(opportunities, build) ==
    [index |-> [exists |-> TRUE,
                data |-> normalize_L2(vstack(<<_get_embedding(TextsOf(opportunities))>>)),
                by |-> build],
     id_map |-> [exists |-> TRUE, data |-> IdMapOf(opportunities), by |-> build]]

InitSearch ==
    /\ IdleFilter /\ IdlePipe("mixed", 0) /\ IdlePlan /\ IdlePeers
    /\ today \in StartDays
    /\ calls = <<>>
    /\ \E opportunities \in IndexedTables :
          /\ conn = [opps |-> opportunities, runs |-> <<>>]
          /\ disk = conn
          /\ gen = [IdleGen EXCEPT !.pc = "done", !.builds = 1,
                                   !.opportunities = opportunities,
                                   !.texts = TextsOf(opportunities),
                                   !.id_map = IdMapOf(opportunities)]
          /\ files = BuiltFiles(opportunities, 1)
    /\ IdleNormalize /\ IdleAdapter /\ IdleBuilders /\ IdleService

SearchCall(ranked, k, source_filter, min_score) ==
    /\ svc.st = "idle"
    /\ LET r == search(svc, files, ranked, k, source_filter, min_score)
       IN  svc' = [r.svc EXCEPT !.st = "returned",
                                !.request = [kind |-> "search", ranked |-> ranked,
                                             k |-> k, source_filter |-> source_filter,
                                             min_score |-> min_score],
                                !.response = r.ret]
    /\ UNCHANGED <<fcall, conn, disk, calls, pc, tracker, today, ncall, adapter, builders, feed, err, hist, gen,
                   files, plan, peers>>

\* One call on a new instance
NextSearch ==
    /\ svc = NoService
    /\ \E ranked \in Rankings(IndexRows(svc, files)), k \in 1..MaxK,
          source_filter \in {NULL} \cup Sources, min_score \in {0, 50} :
           SearchCall(ranked, k, source_filter, min_score)

SpecSearch == InitSearch /\ [][NextSearch]_vars

(***************************************************************************)
(* SemanticSearch.search_with_details on its own, on the connection of the *)
(* table the index was built from                                          *)
(***************************************************************************)
DetailsCall(ranked, k, source_filter) ==
    /\ svc.st = "idle"
    /\ \E m \in {search(svc, files, ranked, k, source_filter, 0)} :
       \E r \in {search_with_details(svc, files, conn, ranked, k, source_filter)} :
          svc' = [r.svc EXCEPT !.st = "returned",
                               !.request = [kind |-> "details", ranked |-> ranked, k |-> k,
                                            source_filter |-> source_filter,
                                            matches |-> m.ret],
                               !.response = r.ret]
    /\ UNCHANGED <<fcall, ncall, adapter, builders, conn, disk, calls, pc, tracker, today,
                   feed, err, hist, gen, files, plan, peers>>

NextDetails ==
    /\ svc = NoService
    /\ \E ranked \in Rankings(IndexRows(svc, files)), k \in 1..MaxK,
          source_filter \in {NULL} \cup Sources :
           DetailsCall(ranked, k, source_filter)

SpecDetails == InitSearch /\ [][NextDetails]_vars

(***************************************************************************)
(* The backend beside the ingest and the index builder: records are        *)
(* committed, the index is rebuilt, and /api/search is requested at any    *)
(* point of a rebuild                                                      *)
(***************************************************************************)
\* One grant, one solicitation and one request for information
SearchableRecords(source) ==
    IF source = "grants.gov"
    THEN {Rec("GR-1", "t1", "d1", Digits(<<1, 2, 3, 1, 2, 0, 9, 9>>), "500", NULL)}
    ELSE {Rec("N-1", "t1", "d1", IsoTz(2026, 6, 1, 12, 0, 0, 0), NULL, "Solicitation"),
          Rec("N-2", "t1", "d2", IsoTz(2026, 7, 1, 12, 0, 0, 0), NULL, "Sources Sought")}

Queries == {"t1", "d2"}

\* The embeddings that a request can meet: none is computed in keyword mode
\* or without the files
EmbeddingsFor(s, f, mode) ==
    IF mode = "semantic" /\ is_index_available(f)
    THEN {Embedded(ranked) : ranked \in Rankings(IndexRows(s, f))} \cup {None}
    ELSE {None}

InitBackend ==
    /\ IdleFilter /\ IdleStore /\ IdlePipe("mixed", MaxStored) /\ IdleIndex
    /\ IdleNormalize /\ IdleAdapter /\ IdleBuilders /\ IdleService /\ IdlePlan /\ IdlePeers
    /\ today \in StartDays

\* GET /api/search
SearchFunding(embedding, query, source, limit, mode) ==
    /\ svc.st = "idle"
    /\ \E r \in {search_funding(svc, files, disk, embedding, query, source, limit, mode)} :
           svc' = [r.svc EXCEPT !.st = "responded",
                                !.request = [kind |-> "search_funding", embedding |-> embedding,
                                             query |-> query, source |-> source,
                                             limit |-> limit, mode |-> mode,
                                             files |-> files],
                                !.response = r.ret]
    /\ UNCHANGED <<fcall, conn, disk, calls, pc, tracker, today, ncall, adapter, builders, feed, err, hist, gen,
                   files, plan, peers>>

\* The response is sent; the instance keeps what it has loaded
Deliver ==
    /\ svc.st = "responded"
    /\ svc' = [svc EXCEPT !.st = "idle", !.request = None, !.response = None]
    /\ UNCHANGED <<fcall, conn, disk, calls, pc, tracker, today, ncall, adapter, builders, feed, err, hist, gen,
                   files, plan, peers>>

\* A response is sent before the ingest or the builder takes its next step
NextBackend ==
    \/ /\ svc.st = "idle"
       /\ \E source \in Sources : \E record \in SearchableRecords(source) :
             IngestCommitted(record, source)
    \/ svc.st = "idle" /\ GenStart(MaxBatch)
    \/ svc.st = "idle" /\ GenEmbedBatch
    \/ svc.st = "idle" /\ GenWriteIndex
    \/ svc.st = "idle" /\ GenWriteIdMap
    \/ svc.st = "idle" /\ GenKilled
    \/ /\ svc.st = "idle"
       /\ \E mode \in {"semantic", "keyword"} :
          \E embedding \in EmbeddingsFor(svc, files, mode), query \in Queries,
             source \in {NULL} \cup Sources, limit \in 1..MaxLimit :
                SearchFunding(embedding, query, source, limit, mode)
    \/ Deliver

SpecBackend == InitBackend /\ [][NextBackend]_vars

(***************************************************************************)
(* SemanticSearch.search beside the index builder.  search reads the       *)
(* property index when it queries the index and the property id_map when   *)
(* its loop resolves the first neighbour; each loads its file on first use *)
(* and keeps it.  The builder's steps can fall between the two.            *)
(***************************************************************************)
\* query_embedding = self._embed_query(query);
\* scores, indices = self.index.search(query_embedding, search_k)
LazyIndexSearch(ranked, k, source_filter) ==
    /\ svc.st = "idle"
    /\ \E s0 \in {load_index(svc, files)} :
          IF IsExc(s0)
          THEN svc' = [svc EXCEPT !.st = "responded",
                                  !.request = [kind |-> "search", ranked |-> ranked, k |-> k,
                                               source_filter |-> source_filter],
                                  !.response = s0]
          ELSE svc' = [s0 EXCEPT !.st = "resolving",
                                 !.request = [kind |-> "search", ranked |-> ranked, k |-> k,
                                              source_filter |-> source_filter]]
    /\ UNCHANGED <<fcall, ncall, adapter, builders, conn, disk, calls, pc, tracker, today,
                   feed, err, hist, gen, files, plan, peers>>

\* for score, idx in zip(scores[0], indices[0]): ... entry = self.id_map[idx]
LazyResolve ==
    /\ svc.st = "resolving"
    /\ \E r \in {search_loop(svc, files,
                             index_search(svc.request.ranked,
                                          IF ~Falsy(svc.request.source_filter)
                                          THEN svc.request.k * 3 ELSE svc.request.k),
                             svc.request.k, svc.request.source_filter, 0)} :
          svc' = [r.svc EXCEPT !.st = "responded", !.response = r.ret]
    /\ UNCHANGED <<fcall, ncall, adapter, builders, conn, disk, calls, pc, tracker, today,
                   feed, err, hist, gen, files, plan, peers>>

NextLazy ==
    \/ /\ svc.st # "responded"
       /\ \E source \in Sources : \E record \in SearchableRecords(source) :
             IngestCommitted(record, source)
    \/ svc.st # "responded" /\ GenStart(MaxBatch)
    \/ svc.st # "responded" /\ GenEmbedBatch
    \/ svc.st # "responded" /\ GenWriteIndex
    \/ svc.st # "responded" /\ GenWriteIdMap
    \/ /\ svc.st = "idle"
       /\ \E ranked \in Rankings(IndexRows(svc, files)), k \in 1..MaxLimit,
             source_filter \in {NULL} \cup Sources :
                LazyIndexSearch(ranked, k, source_filter)
    \/ LazyResolve
    \/ Deliver

SpecLazy == InitBackend /\ [][NextLazy]_vars

(***************************************************************************)
(* Two invocations of generate_index at the same time (two processes, or   *)
(* two threads of the backend).  builders[b] is the state of invocation b, *)
(* with the fields of gen; both write the same two paths.  generate_index  *)
(* takes no lock and writes the files in place.                            *)
(***************************************************************************)
Builders == {1, 2}

\* generate_index up to the first batch
BuildStart(b, batch_size) ==
    /\ builders[b].pc = "idle"
    /\ LET opportunities == disk.opps
       IN  builders' = [builders EXCEPT ![b] =
                  [pc |-> IF opportunities = <<>> THEN "done" ELSE "embed",
                   builds |-> b,
                   batch_size |-> batch_size,
                   opportunities |-> opportunities,
                   texts |-> TextsOf(opportunities),
                   id_map |-> IdMapOf(opportunities),
                   all_embeddings |-> <<>>,
                   i |-> 0,
                   before |-> files]]
    /\ UNCHANGED <<fcall, ncall, adapter, conn, disk, calls, pc, tracker, today, feed, err,
                   hist, gen, files, svc, plan, peers>>

\* One pass of "for i in range(0, len(texts), self.batch_size)"
BuildEmbedBatch(b) ==
    /\ builders[b].pc = "embed"
    /\ LET g == builders[b]
           embeddings == _get_embedding(batch(g.texts, g.i, g.batch_size))
           next_i == g.i + g.batch_size
       IN  builders' = [builders EXCEPT ![b] =
                  [g EXCEPT !.all_embeddings = Append(@, embeddings),
                            !.i = next_i,
                            !.pc = IF next_i < Len(g.texts) THEN "embed"
                                   ELSE "write_index"]]
    /\ UNCHANGED <<fcall, ncall, adapter, conn, disk, calls, pc, tracker, today, feed, err,
                   hist, gen, files, svc, plan, peers>>

\* faiss.write_index(index, str(self.index_path))
BuildWriteIndex(b) ==
    /\ builders[b].pc = "write_index"
    /\ files' = [files EXCEPT !.index =
                    [exists |-> TRUE,
                     data |-> normalize_L2(vstack(builders[b].all_embeddings)),
                     by |-> builders[b].builds]]
    /\ builders' = [builders EXCEPT ![b].pc = "write_id_map"]
    /\ UNCHANGED <<fcall, ncall, adapter, conn, disk, calls, pc, tracker, today, feed, err,
                   hist, gen, svc, plan, peers>>

\* with open(self.id_map_path, "w") as f: json.dump(id_map, f)
BuildWriteIdMap(b) ==
    /\ builders[b].pc = "write_id_map"
    /\ files' = [files EXCEPT !.id_map =
                    [exists |-> TRUE, data |-> builders[b].id_map,
                     by |-> builders[b].builds]]
    /\ builders' = [builders EXCEPT ![b].pc = "done"]
    /\ UNCHANGED <<fcall, ncall, adapter, conn, disk, calls, pc, tracker, today, feed, err,
                   hist, gen, svc, plan, peers>>

InitBuilders ==
    /\ IdleFilter /\ IdleStore /\ IdlePipe("mixed", MaxStored) /\ IdleIndex
    /\ IdleNormalize /\ IdleAdapter /\ IdleService /\ IdlePlan /\ IdlePeers
    /\ builders = TwoBuilders
    /\ today \in StartDays

NextBuilders ==
    \/ \E source \in Sources : \E record \in SearchableRecords(source) :
          IngestCommitted(record, source)
    \/ \E b \in Builders, batch_size \in 1..MaxBatch : BuildStart(b, batch_size)
    \/ \E b \in Builders : BuildEmbedBatch(b)
    \/ \E b \in Builders : BuildWriteIndex(b)
    \/ \E b \in Builders : BuildWriteIdMap(b)

SpecBuilders == InitBuilders /\ [][NextBuilders]_vars

(***************************************************************************)
(* search_with_details on files that were built before later ingest runs:  *)
(* ingest runs and builds in any order from an empty table, then one call  *)
(* on the connection of the table as it is now.                            *)
(***************************************************************************)
\* What the ingest runs store: new rows, and records of identifiers stored
\* before, with other titles, descriptions and deadlines
JoinRecords(source) == SearchableRecords(source) \cup FeedRecords(source, "mixed")

NextJoin ==
    \/ /\ svc.st = "idle"
       /\ \E source \in Sources : \E record \in JoinRecords(source) :
             IngestCommitted(record, source)
    \/ svc.st = "idle" /\ GenStart(MaxBatch)
    \/ svc.st = "idle" /\ GenEmbedBatch
    \/ svc.st = "idle" /\ GenWriteIndex
    \/ svc.st = "idle" /\ GenWriteIdMap
    \/ /\ svc.st = "idle"
       /\ \E ranked \in Rankings(IndexRows(svc, files)), k \in 1..MaxK,
             source_filter \in {NULL} \cup Sources :
                DetailsCall(ranked, k, source_filter)

SpecJoin == InitBackend /\ [][NextJoin]_vars

(***************************************************************************)
(* Two ingest processes on one database file.  Each opens a connection of  *)
(* its own (sqlite3.connect with the default timeout and journal mode) and *)
(* calls upsert_opportunity once, then commits.  The SELECT of the upsert  *)
(* runs outside a transaction and reads the committed table; the INSERT or *)
(* UPDATE opens the transaction and takes the write lock of the file,      *)
(* which the commit releases.                                              *)
(***************************************************************************)
Peers == {1, 2}

\* Whether schema.sql declares opportunity_id UNIQUE
UniqueDeclared == {TRUE, FALSE}

\* The records an ingest process can be about to store
PeerRecords(source) ==
    {record \in FeedRecords(source, "mixed") : ~Falsy(record.opportunity_id)}

NewPeer(record, source) ==
    [pc |-> "lookup", record |-> record, source |-> source, existing |-> {},
     view |-> EmptyDb, ret |-> NULL, err |-> NULL]

\* The statement after the SELECT: the UPDATE when a row was found, else the INSERT
upsert_write(db, record, source, existing) ==
    LET deadline == normalize_deadline(record.deadline, source)
    IN  IF existing # {}
        THEN [db |-> [db EXCEPT !.opps =
                        [i \in 1..Len(@) |->
                            IF @[i].opportunity_id = record.opportunity_id
                            THEN UpdateRow(@[i], record, deadline)
                            ELSE @[i]]],
              ret |-> FALSE]
        ELSE [db |-> [db EXCEPT !.opps = Append(@, NewRow(db, record, source, deadline))],
              ret |-> TRUE]

InitPeers ==
    /\ IdleFilter /\ IdleStore /\ IdlePipe("mixed", 0) /\ IdleIndex
    /\ IdleNormalize /\ IdleAdapter /\ IdleBuilders /\ IdleService /\ IdlePlan
    /\ today \in StartDays
    /\ \E unique \in UniqueDeclared :
       \E s1 \in Sources, s2 \in Sources :
       \E r1 \in PeerRecords(s1), r2 \in PeerRecords(s2) :
          peers = [unique |-> unique, lock |-> 0,
                   conns |-> <<NewPeer(r1, s1), NewPeer(r2, s2)>>]

\* existing = cursor.fetchone() of the SELECT
PeerLookup(i) ==
    /\ peers.conns[i].pc = "lookup"
    /\ peers' = [peers EXCEPT
                   !.conns[i].existing = SelectByOppId(disk, peers.conns[i].record.opportunity_id),
                   !.conns[i].pc = "write"]
    /\ UNCHANGED <<fcall, conn, disk, calls, pc, tracker, today, ncall, adapter, builders, feed, err, hist, gen,
                   files, svc, plan>>

\* conn.execute of the UPDATE or INSERT while no other connection holds the
\* write lock.  The INSERT of an identifier the table holds by now raises
\* when the column is declared UNIQUE.
PeerWrite(i) ==
    /\ peers.conns[i].pc = "write"
    /\ peers.lock = 0
    /\ LET c == peers.conns[i]
       IN  IF /\ peers.unique
              /\ c.existing = {}
              /\ SelectByOppId(disk, c.record.opportunity_id) # {}
           THEN peers' = [peers EXCEPT !.conns[i].pc = "raised",
                                       !.conns[i].err = "IntegrityError"]
           ELSE \E u \in {upsert_write(disk, c.record, c.source, c.existing)} :
                   peers' = [peers EXCEPT !.lock = i,
                                          !.conns[i].view = u.db,
                                          !.conns[i].ret = u.ret,
                                          !.conns[i].pc = "commit"]
    /\ UNCHANGED <<fcall, conn, disk, calls, pc, tracker, today, ncall, adapter, builders, feed, err, hist, gen,
                   files, svc, plan>>

\* conn.execute of the UPDATE or INSERT while the other connection holds the
\* write lock and keeps it past the timeout of sqlite3.connect
PeerBusy(i) ==
    /\ peers.conns[i].pc = "write"
    /\ peers.lock \notin {0, i}
    /\ peers' = [peers EXCEPT !.conns[i].pc = "raised",
                              !.conns[i].err = "OperationalError"]
    /\ UNCHANGED <<fcall, conn, disk, calls, pc, tracker, today, ncall, adapter, builders, feed, err, hist, gen,
                   files, svc, plan>>

\* conn.commit()
PeerCommit(i) ==
    /\ peers.conns[i].pc = "commit"
    /\ disk' = peers.conns[i].view
    /\ peers' = [peers EXCEPT !.lock = 0, !.conns[i].pc = "done"]
    /\ UNCHANGED <<fcall, conn, calls, pc, tracker, today, ncall, adapter, builders, feed, err, hist, gen,
                   files, svc, plan>>

NextPeers ==
    \E i \in Peers : PeerLookup(i) \/ PeerWrite(i) \/ PeerBusy(i) \/ PeerCommit(i)

SpecPeers == InitPeers /\ [][NextPeers]_vars

(***************************************************************************)
(* sources/sam.py, sources/grants.py: the adapters' fetch()                *)
(*                                                                         *)
(* A raw SAM.gov item is a JSON value of the opportunitiesData list: an    *)
(* object, whose fields hold a string (Text), a number or null (None), or  *)
(* a value that is no object.  A raw Grants.gov item is an Element of the  *)
(* extract, whose children hold text or are absent.  fetch() is a          *)
(* generator: one step is one next() of the consumer's for loop.           *)
(***************************************************************************)
Number(n) == [k |-> "number", n |-> n]

Contract(noticeId, title, responseDeadLine, type) ==
    [k |-> "dict", noticeId |-> noticeId, title |-> title, description |-> None,
     responseDeadLine |-> responseDeadLine, archiveDate |-> None, type |-> type]

Element(OpportunityID, OpportunityTitle, CloseDate) ==
    [k |-> "element", OpportunityID |-> OpportunityID,
     OpportunityTitle |-> OpportunityTitle, Description |-> None,
     CloseDate |-> CloseDate, EstimatedTotalProgramFunding |-> None]

\* "if x" on a field of a JSON object
Truthy(x) == x # None /\ x # Text("") /\ x # Number(0)

\* x.strip() if x else None raises: a number has no strip
StripRaises(x) == Truthy(x) /\ x.k # "text"

\* x.strip() if x else None, when it does not raise
StripIfTruthy(x) == IF Truthy(x) THEN x.s ELSE NULL

\* dict.get(key, default) on a string field, read as Optional[str]
StrOr(x, default) == IF x = None THEN default ELSE x.s

\* a or b
Or(a, b) == IF a = None \/ a = Text("") THEN b ELSE a

\* SamGovSource._normalize_contract; contract.get raises on a value that is
\* no object
_normalize_contract(contract) ==
    IF contract.k # "dict" THEN Exc("AttributeError")
    ELSE IF StripRaises(contract.title) \/ StripRaises(contract.description)
    THEN Exc("AttributeError")
    ELSE Rec(StrOr(contract.noticeId, NULL), StripIfTruthy(contract.title),
             StripIfTruthy(contract.description),
             Or(contract.responseDeadLine, contract.archiveDate), NULL,
             StrOr(contract.type, NULL))

\* GrantsGovSource._get_text
_get_text(elem, tag) == IF elem[tag] = None \/ elem[tag] = Text("") THEN NULL ELSE elem[tag].s

\* GrantsGovSource._parse_opportunity
_parse_opportunity(grant) ==
    Rec(_get_text(grant, "OpportunityID"), _get_text(grant, "OpportunityTitle"),
        _get_text(grant, "Description"),
        IF grant.CloseDate = None \/ grant.CloseDate = Text("") THEN None ELSE grant.CloseDate,
        NULL, NULL)

\* The statement under "try:" of the item loop
ParseItem(source, item) ==
    IF source = "sam.gov" THEN _normalize_contract(item) ELSE _parse_opportunity(item)

\* The except block of the item loop: it reads the item's identifier for the
\* message, then continues.  TRUE when the block itself raises.
HandlerRaises(source, item) ==
    IF source = "sam.gov" THEN item.k # "dict"      \* contract.get("noticeId", "unknown")
    ELSE FALSE                                        \* self._get_text(grant, "ns:OpportunityID")

\* The generator from the item after position at up to its next yield:
\* [at, out], out the record yielded, None at the end of the feed, or the
\* exception that leaves the generator
RECURSIVE resume(_, _, _)
resume(source, items, at) ==
    IF at >= Len(items) THEN [at |-> at, out |-> None]
    ELSE LET parsed == ParseItem(source, items[at + 1])
         IN  IF ~IsRaised(parsed) THEN [at |-> at + 1, out |-> [k |-> "record", rec |-> parsed]]
             ELSE IF HandlerRaises(source, items[at + 1])
             THEN [at |-> at + 1, out |-> Exc("AttributeError")]
             ELSE resume(source, items, at + 1)

\* The items a feed can hold
RawItems(source) ==
    IF source = "sam.gov"
    THEN {Contract(Text("N-1"), Text("t1"), IsoTz(2026, 6, 1, 12, 0, 0, 0), Text("Solicitation")),
          Contract(Text("N-2"), None, None, Text("Sources Sought")),
          Contract(Text("N-3"), Number(7), None, Text("Solicitation")),
          None}
    ELSE {Element(Text("GR-1"), Text("t1"), Digits(<<1, 2, 3, 1, 2, 0, 9, 9>>)),
          Element(Text("GR-2"), None, None),
          Element(None, Text("t1"), Text(""))}

RawFeeds(source) ==
    UNION {[1..n -> RawItems(source)] : n \in 0..MaxItems}

InitFetch ==
    /\ IdleFilter /\ IdleNormalize /\ IdleStore /\ IdlePipe("mixed", 0) /\ IdleIndex
    /\ IdleBuilders /\ IdleService /\ IdlePlan /\ IdlePeers
    /\ today \in StartDays
    /\ \E source \in Sources : \E items \in RawFeeds(source) :
          adapter = [source |-> source, items |-> items, at |-> 0, st |-> "iterating",
                     yielded |-> <<>>]

\* for record in source.fetch(): tracker.increment_fetched()
FetchNext ==
    /\ adapter.st = "iterating"
    /\ \E r \in {resume(adapter.source, adapter.items, adapter.at)} :
          IF r.out = None
          THEN /\ adapter' = [adapter EXCEPT !.at = r.at, !.st = "exhausted"]
               /\ UNCHANGED tracker
          ELSE IF IsExc(r.out)
          THEN /\ adapter' = [adapter EXCEPT !.at = r.at, !.st = "raised"]
               /\ UNCHANGED tracker
          ELSE /\ adapter' = [adapter EXCEPT !.at = r.at,
                                             !.yielded = Append(@, r.out.rec)]
               /\ tracker' = [tracker EXCEPT !.records_fetched = @ + 1]
    /\ UNCHANGED <<fcall, ncall, builders, conn, disk, calls, pc, today, feed, err, hist,
                   gen, files, svc, plan, peers>>

NextFetch == FetchNext

SpecFetch == InitFetch /\ [][NextFetch]_vars

(***************************************************************************)
(* is_expired on its own: every call, over deadlines and reference dates   *)
(* around month and year ends                                              *)
(***************************************************************************)
FilterDays ==
    {Date(2024, 2, 29), Date(2025, 12, 31), Date(2026, 1, 1), Date(2026, 1, 2),
     Date(2026, 2, 28), Date(2026, 3, 1), Date(2027, 1, 1)}

FilterDeadlines ==
    {None, Text(""), Text("TBD"), Digits(<<0, 1, 0, 1, 2, 0, 2, 6>>),
     Iso(2026, 13, 1, 23, 59, 59), Iso(2026, 2, 30, 23, 59, 59)}
    \cup {Iso(day.y, day.mo, day.d, t[1], t[2], t[3]) :
            day \in FilterDays, t \in {<<0, 0, 0>>, <<12, 30, 0>>, <<23, 59, 59>>}}

InitFilter ==
    /\ fcall \in {[deadline |-> dl, ref |-> ref, st |-> "call", result |-> FALSE] :
                    dl \in FilterDeadlines, ref \in FilterDays \cup {None}}
    /\ IdleStore /\ IdlePipe("mixed", 0) /\ IdleIndex
    /\ IdleNormalize /\ IdleAdapter /\ IdleBuilders /\ IdleService /\ IdlePlan /\ IdlePeers
    /\ today \in StartDays

FilterCall ==
    /\ fcall.st = "call"
    /\ fcall' = [fcall EXCEPT !.st = "returned",
                              !.result = is_expired(fcall.deadline, fcall.ref, today)]
    /\ UNCHANGED <<conn, disk, calls, pc, tracker, today, ncall, adapter, builders, svc, plan, peers, feed, err, hist, gen, files>>

NextFilter == FilterCall

SpecFilter == InitFilter /\ [][NextFilter]_vars

(***************************************************************************)
(* normalize_deadline on its own: every call, over raw deadlines of the    *)
(* two feeds' formats and of neither, under every source tag, followed by  *)
(* the freshness filter on a record carrying that deadline                 *)
(***************************************************************************)
\* Eight digits: two for the month, two for the day, four for the year
EightDigits ==
    {Digits(mm \o dd \o yyyy) :
        mm \in {<<0, 0>>, <<0, 1>>, <<0, 2>>, <<1, 2>>, <<1, 3>>},
        dd \in {<<0, 0>>, <<0, 1>>, <<2, 9>>, <<3, 0>>, <<3, 1>>, <<3, 2>>},
        yyyy \in {<<0, 0, 0, 0>>, <<2, 0, 2, 4>>, <<2, 0, 2, 6>>, <<9, 9, 9, 9>>}}

IsoDeadlines ==
    {Iso(y, 12, 31, h, 0, 0) : y \in {1, 2026, 9999}, h \in {0, 23}}
    \cup {Iso(2026, 2, 30, 0, 0, 0), Iso(2026, 13, 1, 0, 0, 0)}
    \cup {IsoTz(y, md[1], md[2], h, 0, 0, off) :
            y \in {1, 2026, 9999}, md \in {<<1, 1>>, <<12, 31>>},
            h \in {0, 23}, off \in {-5, 0, 5}}

RawDeadlines ==
    {None, Text(""), Text("N/A"), Text("n/a"), Text("TBD"),
     Digits(<<2, 0, 2, 6>>)} \cup EightDigits \cup IsoDeadlines

SourceTags == Sources \cup {"other"}

InitNormalize ==
    /\ ncall \in {[deadline |-> dl, source |-> source, st |-> "call", result |-> None,
                   filtered |-> None] : dl \in RawDeadlines, source \in SourceTags}
    /\ IdleFilter /\ IdleStore /\ IdlePipe("mixed", 0) /\ IdleIndex
    /\ IdleAdapter /\ IdleBuilders /\ IdleService /\ IdlePlan /\ IdlePeers
    /\ today \in StartDays

\* deadline_iso = normalize_deadline(raw_deadline, source), and what
\* filter_freshness_only makes of a record with that deadline
NormalizeCall ==
    /\ ncall.st = "call"
    /\ \E r \in {normalize_deadline(ncall.deadline, ncall.source)} :
       \E f \in {filter_freshness_only(Rec("X-1", "t1", "d1", ncall.deadline, NULL, NULL),
                                       ncall.source, None, today)} :
          ncall' = [ncall EXCEPT !.st = IF IsExc(r) THEN "raised" ELSE "returned",
                                 !.result = r,
                                 !.filtered = IF IsRaised(f) THEN f
                                              ELSE [k |-> "filtered", record |-> f.record,
                                                    reason |-> f.reason]]
    /\ UNCHANGED <<fcall, adapter, builders, conn, disk, calls, pc, tracker, today, feed, err, hist, gen,
                   files, svc, plan, peers>>

NextNormalize == NormalizeCall

SpecNormalize == InitNormalize /\ [][NextNormalize]_vars

(***************************************************************************)
(* OpportunityStorage on its own: upsert_opportunity called directly, with *)
(* any record under any source                                             *)
(***************************************************************************)
ApiRecords == UNION {FeedRecords(source, "mixed") : source \in Sources}

ApiUpsert(record, source) ==
    /\ Len(calls) < MaxCalls
    /\ LET u == upsert_opportunity(conn, record, source)
       IN  /\ conn' = u.db
           /\ calls' = Append(calls,
                  [rec |-> record, source |-> source, ret |-> u.ret,
                   existed |-> SelectByOppId(conn, record.opportunity_id) # {}])
    /\ UNCHANGED <<fcall, disk, pc, tracker, today, ncall, adapter, builders, svc, plan, peers, feed, err, hist, gen, files>>

InitStore ==
    /\ IdleFilter /\ IdleStore /\ IdlePipe("mixed", 0) /\ IdleIndex
    /\ IdleNormalize /\ IdleAdapter /\ IdleBuilders /\ IdleService /\ IdlePlan /\ IdlePeers
    /\ today \in StartDays

NextStore == \E record \in ApiRecords, source \in Sources : ApiUpsert(record, source)

SpecStore == InitStore /\ [][NextStore]_vars

(***************************************************************************)
(* Properties                                                              *)
(***************************************************************************)
\* The last two direct calls of upsert_opportunity
PrevCall == calls[Len(calls) - 1]
LastCall == calls[Len(calls)]

\* C1: two calls of upsert_opportunity in a row with the same identifier, one
\* that is present and was not stored before the first call, leave exactly one
\* row for it, which holds the second call's values with the deadline
\* normalized; the first call returns True and the second returns False.
C1_UpsertTwice ==
    (/\ Len(calls) >= 2
     /\ PrevCall.rec.opportunity_id = LastCall.rec.opportunity_id
     /\ ~Falsy(LastCall.rec.opportunity_id)
     /\ ~PrevCall.existed)
    => /\ PrevCall.ret = TRUE
       /\ LastCall.ret = FALSE
       /\ LET rows == SelectByOppId(conn, LastCall.rec.opportunity_id)
          IN  /\ Cardinality(rows) = 1
              /\ \A i \in rows :
                   /\ conn.opps[i].title = LastCall.rec.title
                   /\ conn.opps[i].description = LastCall.rec.description
                   /\ conn.opps[i].funding_amount = LastCall.rec.funding_amount
                   /\ conn.opps[i].notice_type = LastCall.rec.notice_type
                   /\ conn.opps[i].deadline =
                        normalize_deadline(LastCall.rec.deadline, LastCall.source)

\* GR-1 with deadline 12312099, then GR-1 with deadline 01012026: one row, whose
\* deadline is 2026-01-01T23:59:59
C1_Witness ==
    /\ Len(calls) = 2
    /\ calls[1].rec = Rec("GR-1", "t1", "d1", Digits(<<1, 2, 3, 1, 2, 0, 9, 9>>), "500", NULL)
    /\ calls[2].rec = Rec("GR-1", "t2", NULL, Digits(<<0, 1, 0, 1, 2, 0, 2, 6>>), NULL, NULL)
    /\ calls[1].source = "grants.gov" /\ calls[2].source = "grants.gov"
    /\ calls[1].ret /\ ~calls[2].ret
    /\ Len(conn.opps) = 1
    /\ conn.opps[1].title = "t2"
    /\ conn.opps[1].deadline = Iso(2026, 1, 1, 23, 59, 59)

\* C2: the table never holds two rows with the same external identifier,
\* whatever sources the upserts came from.
C2_OneRowPerIdentifier ==
    \A i, j \in 1..Len(conn.opps) :
        i # j => conn.opps[i].opportunity_id # conn.opps[j].opportunity_id

\* An identifier stored by grants.gov is upserted by sam.gov: the row is
\* overwritten, and no second row is added
C2_Witness ==
    /\ Len(calls) >= 2
    /\ PrevCall.rec.opportunity_id = "GR-1" /\ LastCall.rec.opportunity_id = "GR-1"
    /\ PrevCall.source = "grants.gov" /\ LastCall.source = "sam.gov"
    /\ PrevCall.ret /\ ~LastCall.ret
    /\ Cardinality(SelectByOppId(conn, "GR-1")) = 1
    /\ \A i \in SelectByOppId(conn, "GR-1") :
         conn.opps[i].source = "grants.gov" /\ conn.opps[i].title = LastCall.rec.title

\* A date as a number that grows with the calendar
DayNumber(day) == (day.y * 12 + day.mo) * 31 + day.d

\* C3: is_expired returns TRUE for a deadline whose date is before the
\* reference date, FALSE for one on or after it at any time of day, and TRUE
\* for a missing or unparseable deadline.
C3_IsExpired ==
    fcall.st = "returned" =>
        LET dl == fcall.deadline
            ref == IF fcall.ref = None THEN today ELSE fcall.ref
        IN  IF dl.k = "iso" /\ ValidDateTime(dl.y, dl.mo, dl.d, dl.h, dl.mi, dl.sec)
            THEN fcall.result = (DayNumber(dl) < DayNumber(ref))
            ELSE fcall.result = TRUE

\* A deadline at 00:00:00 of the reference date is not expired
C3_Witness ==
    /\ fcall.st = "returned"
    /\ fcall.deadline = Iso(2026, 3, 1, 0, 0, 0)
    /\ fcall.ref = Date(2026, 3, 1)
    /\ fcall.result = FALSE

\* The ingest_runs row of the current run, as committed
PersistedRun == disk.runs[tracker.run_id]

CountersOf(r) ==
    <<r.records_fetched, r.records_filtered_expired, r.records_filtered_capability,
      r.records_inserted, r.records_updated>>

\* C4: a pass of the ingest loop that writes to the table leaves the row it
\* wrote with a canonical deadline on or after the day of the run: no row is
\* written from a record whose deadline is missing, unparseable or passed.
C4_OnlyFreshWritten ==
    hist.wrote =>
        /\ SelectByOppId(conn, hist.oid) # {}
        /\ \A i \in SelectByOppId(conn, hist.oid) :
             LET dl == conn.opps[i].deadline
             IN  /\ dl.k = "iso"
                 /\ ValidDateTime(dl.y, dl.mo, dl.d, dl.h, dl.mi, dl.sec)
                 /\ DayNumber(dl) >= DayNumber(today)

\* A run has dropped an expired record and has just stored a fresh one
C4_Witness ==
    /\ hist.wrote
    /\ tracker.records_filtered_expired >= 1
    /\ tracker.records_inserted + tracker.records_updated >= 1

\* C5: when the except block of _process_source has run, the committed run row
\* is failed, its counters are the tracker's, and every upsert is committed.
C5_FailedRunKeepsCounts ==
    (pc = "raised" /\ hist.handled) =>
        /\ PersistedRun.status = "failed"
        /\ CountersOf(PersistedRun) = CountersOf(tracker)
        /\ disk.opps = conn.opps

\* C6: a call of complete() never changes the status or the counters of a run
\* row that is already completed or failed.
C6_OneTransition ==
    [][(pc \in {"complete", "except"}
        /\ conn.runs[tracker.run_id].status \in {"completed", "failed"})
       => /\ conn'.runs[tracker.run_id].status = conn.runs[tracker.run_id].status
          /\ CountersOf(conn'.runs[tracker.run_id]) = CountersOf(conn.runs[tracker.run_id])]_vars

\* C7: a run whose feed could not be reached ends failed.
C7_UnreachableFeedFails ==
    (hist.feedFailed /\ pc \in {"returned", "raised"}) =>
        PersistedRun.status = "failed"

\* C8: whenever the loop has processed a multiple of 100 records, everything
\* written so far is committed.
C8_CommitEvery100 ==
    (/\ pc = "loop"
     /\ tracker.records_fetched > 0
     /\ tracker.records_fetched % COMMIT_EVERY = 0)
    => disk = conn

\* The row of the build's SELECT that an id_map entry names
RowsNamed(entry) ==
    {j \in 1..Len(gen.opportunities) : gen.opportunities[j].id = entry.db_id}

\* C9: when generate_index has returned, the identifier list has as many
\* entries as the vector index has rows; after a build that embedded records,
\* that is the number of records, and entry p names the record whose text
\* vector p embeds.
C9_IndexMatchesIdMap ==
    gen.pc = "done" =>
        /\ Len(files.id_map.data) = Len(files.index.data)
        /\ gen.opportunities # <<>> =>
             /\ Len(files.index.data) = Len(gen.opportunities)
             /\ \A p \in 1..Len(files.id_map.data) :
                  /\ p <= Len(files.index.data)
                  /\ Cardinality(RowsNamed(files.id_map.data[p])) = 1
                  /\ \A j \in RowsNamed(files.id_map.data[p]) :
                       /\ files.id_map.data[p].opportunity_id =
                            gen.opportunities[j].opportunity_id
                       /\ files.id_map.data[p].source = gen.opportunities[j].source
                       /\ files.index.data[p].unit
                       /\ files.index.data[p].of =
                            _build_searchable_text(gen.opportunities[j].title,
                                                   gen.opportunities[j].description)

\* Three records with three different texts, embedded in two batches of 2 and 1
C9_Witness ==
    /\ gen.pc = "done"
    /\ gen.batch_size = 2
    /\ Len(gen.opportunities) = 3
    /\ Len(gen.all_embeddings) = 2
    /\ Cardinality({files.index.data[p].of : p \in 1..Len(files.index.data)}) = 3

\* C10: a build that the embedding provider fails leaves both files as they
\* were when the build began.
C10_FailedBuildWritesNothing ==
    gen.pc = "failed" => files = gen.before

\* The provider fails on the second batch of a rebuild, over an earlier pair
C10_Witness ==
    /\ gen.pc = "failed"
    /\ gen.i > 0
    /\ gen.before.index.exists /\ gen.before.id_map.exists
    /\ Len(gen.opportunities) > Len(gen.before.index.data)
    /\ files.index.by = gen.builds - 1

\* C11: is_index_available is true only when both files exist and were written
\* by the same build; it is false while a rebuild has written the index file
\* and not yet the identifier list.
C11_AvailableOnlyWhenConsistent ==
    is_index_available(files) =>
        /\ files.index.exists /\ files.id_map.exists
        /\ files.index.by = files.id_map.by
        /\ gen.pc # "write_id_map"

\* The positions of the retrieved neighbour list (the search_k best rows of
\* the ranking) that search keeps: score at least min_score, source matching
Kept(req, id_map) ==
    LET search_k == IF req.source_filter \in Sources THEN 3 * req.k ELSE req.k
    IN  {p \in 1..Len(req.ranked) :
            /\ p <= search_k
            /\ req.ranked[p].score >= req.min_score
            /\ req.source_filter \in Sources =>
                  id_map[req.ranked[p].idx + 1].source = req.source_filter}

\* C12: a search with a source filter returns only entries whose source is the
\* filter, and each is the identifier-list entry of a retrieved row.
C12_SourceFilterRespected ==
    (svc.st = "returned" /\ svc.request.kind = "search"
        /\ svc.request.source_filter \in Sources /\ svc.response.k = "list") =>
        \A q \in 1..Len(svc.response.items) :
            /\ svc.response.items[q].source = svc.request.source_filter
            /\ \E j \in 1..Len(disk.opps) :
                  /\ disk.opps[j].id = svc.response.items[q].db_id
                  /\ disk.opps[j].source = svc.request.source_filter

\* k = 1 with filter sam.gov: the best two rows are grants.gov rows, the third
\* is the sam.gov row that is returned
C12_Witness ==
    /\ svc.st = "returned" /\ svc.request.kind = "search"
    /\ svc.request.source_filter = "sam.gov" /\ svc.request.k = 1
    /\ Len(svc.request.ranked) >= 3
    /\ files.id_map.data[svc.request.ranked[1].idx + 1].source = "grants.gov"
    /\ files.id_map.data[svc.request.ranked[2].idx + 1].source = "grants.gov"
    /\ files.id_map.data[svc.request.ranked[3].idx + 1].source = "sam.gov"
    /\ svc.response.k = "list"
    /\ Len(svc.response.items) = 1
    /\ svc.response.items[1].db_id = files.id_map.data[svc.request.ranked[3].idx + 1].db_id

\* C13: search returns the first k kept positions of the retrieved neighbour
\* list, in the order of the list: never more than k entries, never one below
\* min_score.
C13_FirstKKept ==
    (svc.st = "returned" /\ svc.request.kind = "search" /\ svc.response.k = "list") =>
        LET req == svc.request
            items == svc.response.items
            kept == Kept(req, files.id_map.data)
        IN  /\ Len(items) = Min(req.k, Cardinality(kept))
            /\ \A q \in 1..Len(items) :
                  /\ items[q].score >= req.min_score
                  /\ \E p \in kept :
                        /\ Cardinality({p2 \in kept : p2 < p}) = q - 1
                        /\ items[q].score = req.ranked[p].score
                        /\ items[q].db_id = files.id_map.data[req.ranked[p].idx + 1].db_id
                        /\ items[q].opportunity_id =
                              files.id_map.data[req.ranked[p].idx + 1].opportunity_id
                        /\ items[q].source = files.id_map.data[req.ranked[p].idx + 1].source

\* Neighbours 0.91 and 0.40, min_score 0.5, k = 5, no filter: only the first
C13_Witness ==
    /\ svc.st = "returned" /\ svc.request.kind = "search"
    /\ svc.request.source_filter = NULL /\ svc.request.k = 5
    /\ svc.request.min_score = 50
    /\ Len(svc.request.ranked) = 2
    /\ svc.request.ranked[1].score = 91 /\ svc.request.ranked[2].score = 40
    /\ svc.response.k = "list"
    /\ Len(svc.response.items) = 1
    /\ svc.response.items[1].score = 91

\* A filtered search with k = 1 over four rows: the only row of the filter's
\* source is ranked fourth, past the 3 neighbours retrieved, and is not found
C13_WitnessCap ==
    /\ svc.st = "returned" /\ svc.request.kind = "search"
    /\ svc.request.source_filter = "sam.gov" /\ svc.request.k = 1
    /\ Len(svc.request.ranked) = 4
    /\ files.id_map.data[svc.request.ranked[4].idx + 1].source = "sam.gov"
    /\ svc.response.k = "list"
    /\ svc.response.items = <<>>

\* A request to /api/search has been answered
Answered == svc.st = "responded" /\ svc.request.kind = "search_funding"

\* C14: in a response of the semantic mode every item of the contracts bucket
\* is a stored sam.gov record whose notice type is not RFI-designated, and no
\* record is in both the contracts and the rfis bucket.
C14_ContractsExcludeRfis ==
    (Answered /\ svc.response.k = "response" /\ svc.response.search_mode = "semantic") =>
        /\ \A p \in 1..Len(svc.response.contracts) :
              \E j \in 1..Len(disk.opps) :
                 /\ disk.opps[j].id = svc.response.contracts[p].id
                 /\ disk.opps[j].source = "sam.gov"
                 /\ disk.opps[j].notice_type \notin RFI_NOTICE_TYPES
        /\ \A p \in 1..Len(svc.response.contracts), q \in 1..Len(svc.response.rfis) :
              svc.response.contracts[p].id # svc.response.rfis[q].id

\* The two files are there and were written by one build
FilesConsistent(f) ==
    f.index.exists /\ f.id_map.exists /\ f.index.by = f.id_map.by

\* C15: whatever the state of the two files, a request in semantic mode that
\* the embedding provider does not fail is answered with a response tagged
\* with its mode, never with an error; when the files are missing or do not
\* belong together the response is the keyword search's.
C15_DegradesNeverFails ==
    (Answered /\ svc.request.mode = "semantic"
        /\ ~(is_index_available(files) /\ svc.request.embedding = None)) =>
        /\ svc.response.k = "response"
        /\ svc.response.search_mode \in {"semantic", "keyword"}
        /\ ~FilesConsistent(files) => svc.response.search_mode = "keyword"

\* The part of C15 that is about errors alone
C15_NoServerError ==
    (Answered /\ svc.request.mode = "semantic"
        /\ ~(is_index_available(files) /\ svc.request.embedding = None)) =>
        svc.response.k = "response"

\* Both ingest processes are through with the same identifier
PeersFinished ==
    /\ Len(peers.conns) = 2
    /\ \A i \in Peers : peers.conns[i].pc \in {"done", "raised"}
    /\ peers.conns[1].record.opportunity_id = peers.conns[2].record.opportunity_id

\* The row that connection i's record makes
RowIsOf(row, c) ==
    /\ row.opportunity_id = c.record.opportunity_id
    /\ row.title = c.record.title
    /\ row.description = c.record.description
    /\ row.deadline = normalize_deadline(c.record.deadline, c.source)
    /\ row.funding_amount = c.record.funding_amount
    /\ row.notice_type = c.record.notice_type

\* C16: when two ingest runs on connections of their own upsert the same
\* identifier concurrently, then in every interleaving of their lookups,
\* writes and commits the table ends with exactly one row for the identifier,
\* holding the values of one of the two writers, and neither run got an error.
C16_ConcurrentUpsertOneRow ==
    PeersFinished =>
        /\ Cardinality(SelectByOppId(disk, peers.conns[1].record.opportunity_id)) = 1
        /\ \A j \in SelectByOppId(disk, peers.conns[1].record.opportunity_id) :
              \E i \in Peers : RowIsOf(disk.opps[j], peers.conns[i])
        /\ \A i \in Peers : peers.conns[i].pc = "done"

\* The parts of C16 one by one: a second row, and an error
C16_NoDuplicateRow ==
    PeersFinished =>
        Cardinality(SelectByOppId(disk, peers.conns[1].record.opportunity_id)) <= 1

C16_NoError == PeersFinished => \A i \in Peers : peers.conns[i].pc = "done"

\* C17: an update from a record that does not supply a field (notice_type,
\* funding_amount, description) leaves the value the row holds for that field,
\* when it is not null, as it was.
C17_UpdateKeepsUnsuppliedFields ==
    (/\ Len(calls) >= 2
     /\ PrevCall.rec.opportunity_id = LastCall.rec.opportunity_id
     /\ ~Falsy(LastCall.rec.opportunity_id))
    => \A i \in SelectByOppId(conn, LastCall.rec.opportunity_id) :
          /\ (PrevCall.rec.funding_amount # NULL /\ LastCall.rec.funding_amount = NULL)
                => conn.opps[i].funding_amount = PrevCall.rec.funding_amount
          /\ (PrevCall.rec.notice_type # NULL /\ LastCall.rec.notice_type = NULL)
                => conn.opps[i].notice_type = PrevCall.rec.notice_type
          /\ (PrevCall.rec.description # NULL /\ LastCall.rec.description = NULL)
                => conn.opps[i].description = PrevCall.rec.description

\* run_pipeline is over, by return or by an exception
PipelineOver == plan.st \in {"returned", "raised"}

\* C18: in a run_pipeline over several sources the failure of one source does
\* not change the others: the runs before it stay completed and committed, and
\* every source configured after it still gets its IngestRun created and
\* processed.
C18_FailureIsolated ==
    PipelineOver =>
        /\ Len(disk.runs) = Len(plan.sources)
        /\ \A i \in 1..Len(disk.runs) : disk.runs[i].source = plan.sources[i]
        /\ \A i \in 1..Len(disk.runs), j \in 1..Len(disk.runs) :
              (i < j /\ disk.runs[j].status = "failed") => disk.runs[i].status = "completed"

\* The first half of C18 alone: a run committed as completed stays so
C18_EarlierRunsStay ==
    [][\A i \in 1..Len(disk.runs) :
          disk.runs[i].status = "completed" =>
             /\ Len(disk'.runs) >= i
             /\ disk'.runs[i] = disk.runs[i]]_vars

\* Two sources were run and the second failed after the first had completed
C18_EarlierRunsStayWitness ==
    /\ plan.st = "raised"
    /\ Len(disk.runs) = 2
    /\ disk.runs[1].status = "completed"
    /\ disk.runs[2].status = "failed"

\* The month, day and year that eight digits MMDDYYYY spell
MonthOf(ds) == ds[1] * 10 + ds[2]
DayOf(ds) == ds[3] * 10 + ds[4]
YearOf(ds) == ds[5] * 1000 + ds[6] * 100 + ds[7] * 10 + ds[8]

NormalizedGrantsDigits ==
    /\ ncall.st \in {"returned", "raised"}
    /\ ncall.source = "grants.gov"
    /\ ncall.deadline.k = "digits"
    /\ Len(ncall.deadline.ds) = 8
    /\ YearOf(ncall.deadline.ds) \in 1..9999
    /\ MonthOf(ncall.deadline.ds) \in 1..12
    /\ DayOf(ncall.deadline.ds) \in
          1..DaysInMonth(YearOf(ncall.deadline.ds), MonthOf(ncall.deadline.ds))

\* C19: for every Grants.gov raw deadline made of eight digits MMDDYYYY that
\* spell a calendar date, normalize_deadline returns the timestamp of that
\* month, day and year at 23:59:59.
C19_GrantsDigitsEndOfDay ==
    NormalizedGrantsDigits =>
        /\ ncall.st = "returned"
        /\ ncall.result = Iso(YearOf(ncall.deadline.ds), MonthOf(ncall.deadline.ds),
                              DayOf(ncall.deadline.ds), 23, 59, 59)

\* 02292024 gives 2024-02-29T23:59:59
C19_Witness ==
    /\ NormalizedGrantsDigits
    /\ ncall.deadline = Digits(<<0, 2, 2, 9, 2, 0, 2, 4>>)
    /\ ncall.result = Iso(2024, 2, 29, 23, 59, 59)

\* C20: for every raw deadline and every source tag normalize_deadline returns
\* a canonical timestamp or None and lets no exception through; a record whose
\* deadline normalizes to None is handled like a record with no deadline: the
\* freshness filter drops it as expired and the run goes on.
C20_NormalizeNeverRaises ==
    ncall.st \in {"returned", "raised"} =>
        /\ ncall.st = "returned"
        /\ ncall.result = None \/ ncall.result.k = "iso"
        /\ ncall.result = None =>
              ncall.filtered = [k |-> "filtered", record |-> None, reason |-> "expired"]

\* The second half of C20 alone
C20_NoneIsFilteredAsExpired ==
    (ncall.st = "returned" /\ ncall.result = None) =>
        ncall.filtered = [k |-> "filtered", record |-> None, reason |-> "expired"]

\* "TBD" from SAM.gov: None, and the record is dropped as expired
C20_NoneIsFilteredAsExpiredWitness ==
    /\ ncall.st = "returned"
    /\ ncall.deadline = Text("TBD")
    /\ ncall.source = "sam.gov"
    /\ ncall.result = None
    /\ ncall.filtered.reason = "expired"

\* The records of the well-formed items among the first n items, in feed order
RECURSIVE WellFormedUpTo(_, _, _)
WellFormedUpTo(source, items, n) ==
    IF n = 0 THEN <<>>
    ELSE LET parsed == ParseItem(source, items[n])
         IN  IF IsRaised(parsed) THEN WellFormedUpTo(source, items, n - 1)
             ELSE Append(WellFormedUpTo(source, items, n - 1), parsed)

FetchOver == adapter.st \in {"exhausted", "raised"}

\* C21: when parsing one item of a feed raises, the adapter skips the item and
\* keeps yielding: every well-formed item is yielded, in feed order, also the
\* ones after an item that was skipped, and the run counts as fetched the
\* yielded records only.
C21_BadItemSkipped ==
    /\ adapter.st # "idle" =>
          /\ adapter.yielded = WellFormedUpTo(adapter.source, adapter.items, adapter.at)
          /\ tracker.records_fetched = Len(adapter.yielded)
    /\ FetchOver =>
          /\ adapter.st = "exhausted"
          /\ adapter.yielded =
                WellFormedUpTo(adapter.source, adapter.items, Len(adapter.items))

\* C21 for feeds whose items are all objects: an item with a field of the
\* wrong type is skipped and the items after it are yielded
C21_BadFieldSkipped ==
    (FetchOver /\ \A i \in 1..Len(adapter.items) : adapter.items[i] # None) =>
        /\ adapter.st = "exhausted"
        /\ adapter.yielded = WellFormedUpTo(adapter.source, adapter.items, Len(adapter.items))
        /\ tracker.records_fetched = Len(adapter.yielded)

\* N-3, whose title is a number, is skipped and N-1 after it is yielded
C21_BadFieldSkippedWitness ==
    /\ adapter.st = "exhausted"
    /\ Len(adapter.items) = 2
    /\ adapter.items[1] = Contract(Text("N-3"), Number(7), None, Text("Solicitation"))
    /\ Len(adapter.yielded) = 1
    /\ adapter.yielded[1].opportunity_id = "N-1"
    /\ tracker.records_fetched = 1

\* search_with_details has returned a list
DetailsReturned ==
    /\ svc.st = "returned" /\ svc.request.kind = "details"
    /\ svc.response.k = "list" /\ svc.request.matches.k = "list"

C23_EveryRunEnds ==
    \A i \in 1..MaxLiveEvents :
        (Len(disk.runs) >= i) ~>
            (Len(disk.runs) >= i /\ disk.runs[i].status \in {"completed", "failed"})

\* C23 for the runs that are neither interrupted nor hit by an sqlite3 error
\* in complete(): a run that reaches its return or its except block with the
\* database writable has a terminal row
C23_UndisturbedRunEnds ==
    (pc = "returned" \/ (pc = "raised" /\ hist.handled)) =>
        disk.runs[tracker.run_id].status \in {"completed", "failed"}

\* C24: a search that runs beside an index rebuild resolves every neighbour
\* through an identifier list of the build of the vector index it searched:
\* the SemanticSearch instance never holds a vector index of one build
\* together with an identifier list of another.
C24_LoadedPairFromOneBuild ==
    (svc._index # None /\ svc._id_map # None) => svc._index.by = svc._id_map.by

\* The search queried the index of build 1 and resolved the neighbours through
\* the identifier list of build 2, written in between
C24_MixedPairReached ==
    /\ svc.st = "responded" /\ svc.request.kind = "search"
    /\ svc._index # None /\ svc._id_map # None
    /\ svc._index.by = 1 /\ svc._id_map.by = 2
    /\ files.index.by = 2 /\ files.id_map.by = 2

BuildersDone == \A b \in Builders : builders[b].pc = "done"

\* C25: index rebuilds exclude each other: when two invocations of
\* generate_index overlap, the index file and the identifier list left on
\* disk at the end come from one and the same invocation, in every
\* interleaving.
C25_FilesFromOneInvocation ==
    BuildersDone => files.index.by = files.id_map.by

\* Both invocations wrote and have returned, and the two files are of
\* different invocations and of different lengths
C25_FilesFromTwoReached ==
    /\ BuildersDone
    /\ files.index.by = 2 /\ files.id_map.by = 1
    /\ Len(files.index.data) # Len(files.id_map.data)

\* The buckets that the source parameter of the request leaves open
SourceHonoured ==
    /\ svc.request.source = "sam.gov" => svc.response.grants = <<>>
    /\ svc.request.source = "grants.gov" =>
          svc.response.contracts = <<>> /\ svc.response.rfis = <<>>

\* C26: the source parameter of /api/search filters the response in both
\* modes: with source = sam.gov the grants bucket is empty, with
\* source = grants.gov the contracts and rfis buckets are empty.
C26_SourceFiltersBothModes ==
    (Answered /\ svc.response.k = "response") => SourceHonoured

\* What holds: the responses computed by _semantic_search honour the parameter
C26_SourceFiltersSemantic ==
    (Answered /\ svc.response.k = "response" /\ svc.response.search_mode = "semantic")
        => SourceHonoured

\* A semantic response to a request with a source, other buckets filled
C26_SourceFiltersSemanticWitness ==
    /\ Answered /\ svc.response.k = "response" /\ svc.response.search_mode = "semantic"
    /\ svc.request.source = "sam.gov"
    /\ svc.response.contracts # <<>>
    /\ \E j \in 1..Len(disk.opps) : disk.opps[j].source = "grants.gov"

\* From the table before to the table after no row is gone, and every row has
\* kept its primary key, its external identifier and its source tag
IdentityKept(before, after) ==
    /\ Len(after.opps) >= Len(before.opps)
    /\ \A j \in 1..Len(before.opps) :
          /\ after.opps[j].id = before.opps[j].id
          /\ after.opps[j].opportunity_id = before.opps[j].opportunity_id
          /\ after.opps[j].source = before.opps[j].source

\* C27: the pipeline never removes a stored record and never changes its
\* identity: no step lowers the row count, an update leaves primary key,
\* external identifier and source tag of the row as they were, and a record
\* dropped as expired leaves the rows as they were, the row of its own
\* identifier included.  (A connection opened after a failed run sees the
\* committed table, so the connection's view is compared within a process.)
C27_RowsKeepIdentity ==
    [][/\ IdentityKept(disk, disk')
       /\ pc # "raised" => IdentityKept(conn, conn')
       /\ hist'.expired # NULL => conn'.opps = conn.opps /\ disk'.opps = disk.opps]_vars

\* The pass just made updated the first of two stored rows
C27_UpdateWitness ==
    /\ hist.wrote /\ tracker.records_updated > 0
    /\ Len(conn.opps) = 2
    /\ conn.opps[1].opportunity_id = hist.oid
    /\ conn.opps[1].touched

\* A record whose identifier is stored has just been dropped as expired
C27_ExpiredWitness ==
    hist.expired # NULL /\ SelectByOppId(conn, hist.expired) # {}

\* The counters of a tracker or of an ingest_runs row add up
Conserved(t) ==
    /\ t.records_fetched
          = t.records_filtered_expired + t.records_inserted + t.records_updated
    /\ t.records_filtered_capability = 0

\* Between two records, and in the rows of the runs recorded as completed
CountersAddUp(p, t, db) ==
    /\ p \in {"loop", "final", "complete", "returned"} => Conserved(t)
    /\ \A i \in 1..Len(db.runs) : db.runs[i].status = "completed" => Conserved(db.runs[i])

\* C28: the counters of a run are conserved: after each fully processed
\* record, and in the summary and the row of every completed run,
\* records_fetched = records_filtered_expired + records_inserted +
\* records_updated and records_filtered_capability = 0; no counter of a run
\* ever decreases.
C28_CountersConserved ==
    [][/\ CountersAddUp(pc, tracker, disk)
       /\ CountersAddUp(pc', tracker', disk')
       /\ tracker'.run_id = tracker.run_id =>
             /\ tracker'.records_fetched >= tracker.records_fetched
             /\ tracker'.records_filtered_expired >= tracker.records_filtered_expired
             /\ tracker'.records_filtered_capability >= tracker.records_filtered_capability
             /\ tracker'.records_inserted >= tracker.records_inserted
             /\ tracker'.records_updated >= tracker.records_updated]_vars

\* A run of three records has returned: one dropped as expired, one inserted,
\* one updated
C28_Witness ==
    /\ pc = "returned"
    /\ disk.runs[tracker.run_id].status = "completed"
    /\ disk.runs[tracker.run_id].records_fetched = 3
    /\ tracker.records_filtered_expired = 1
    /\ tracker.records_inserted = 1
    /\ tracker.records_updated = 1

\* C29: the write counters match what the run did to the table:
\* records_inserted grows with the rows the run added, and records_updated
\* grows only with an upsert that overwrote a stored row, for every record a
\* feed can yield, the records without an external identifier included.
C29_WriteCountersMatchWrites ==
    [][tracker'.run_id = tracker.run_id =>
          /\ tracker'.records_inserted - tracker.records_inserted
                = Len(conn'.opps) - Len(conn.opps)
          /\ tracker'.records_updated # tracker.records_updated =>
                /\ hist'.wrote
                /\ Len(conn'.opps) = Len(conn.opps)
                /\ SelectByOppId(conn, hist'.oid) # {}]_vars

\* What holds: records_inserted is the number of rows the run added
C29_InsertedMatchesRows ==
    [][tracker'.run_id = tracker.run_id =>
          tracker'.records_inserted - tracker.records_inserted
             = Len(conn'.opps) - Len(conn.opps)]_vars

\* A run has inserted a row
C29_InsertedMatchesRowsWitness ==
    pc = "loop" /\ tracker.records_inserted = 1 /\ hist.wrote /\ Len(conn.opps) = 2

\* The stored row that the id_map entry e names
JoinsRow(e, row) ==
    /\ row.id = e.db_id
    /\ row.opportunity_id = e.opportunity_id
    /\ row.source = e.source

\* C30: an index built earlier stays joinable: whatever ingest runs follow a
\* successful build, every entry of the identifier list names a stored row of
\* the same primary key, external identifier and source tag, so that
\* search_with_details on the older index returns a stored record for every
\* hit, of the source that the filter asked for.
C30_OlderIndexStaysJoinable ==
    /\ files.id_map.exists =>
          \A p \in 1..Len(files.id_map.data) :
             \E j \in 1..Len(disk.opps) : JoinsRow(files.id_map.data[p], disk.opps[j])
    /\ (DetailsReturned /\ FilesConsistent(files)) =>
          LET matches == svc.request.matches.items
              results == svc.response.items
          IN  /\ Len(results) = Len(matches)
              /\ \A q \in 1..Len(results) :
                    /\ \E j \in 1..Len(disk.opps) :
                          /\ disk.opps[j].id = results[q].id
                          /\ disk.opps[j].source = results[q].source
                          /\ disk.opps[j].title = results[q].title
                    /\ svc.request.source_filter # NULL =>
                          results[q].source = svc.request.source_filter

\* A search on the files of build 1 after an ingest run updated the row it
\* indexed: the hit is returned as the row is now
C30_Witness ==
    /\ DetailsReturned /\ FilesConsistent(files)
    /\ files.index.by = 1 /\ Len(files.id_map.data) = 1
    /\ ~gen.opportunities[1].touched /\ disk.opps[1].touched
    /\ disk.opps[1].description # gen.opportunities[1].description
    /\ svc.request.source_filter = disk.opps[1].source
    /\ Len(svc.response.items) = 1
    /\ svc.response.items[1].id = 1

====
